---------------------------- MODULE Spec2Model ----------------------------
(***************************************************************************)
(* RoomHub (MGhunch/Meeting-Rooms): the availability route with its        *)
(* in-memory TTL cache, the two create routes and the remove route, the    *)
(* shared cache module, and the browser client: its fetches, its dialogs   *)
(* and the booking it checks and submits.                                  *)
(*                                                                         *)
(* Instants are integers, milliseconds of UTC counted from 00:00 UTC of    *)
(* calendar day 0.  A calendar date string 'YYYY-MM-DD' is the number of   *)
(* its day.  An ISO string is the instant it denotes: toISOString and      *)
(* new Date(iso) are exact inverses at millisecond precision.  The server  *)
(* process runs with system timezone UTC, the operating timezone is        *)
(* Pacific/Auckland in daylight time (UTC+13), browsers are in Auckland.   *)
(* Optional values are sequences of length 0 (absent) or 1 (present).      *)
(***************************************************************************)
EXTENDS Integers, Sequences, FiniteSets, TLC

\* ------------------------------------------------------------------ bounds
\* the clock advances in steps of TickMs, at most MaxTicks times
TickMs == 30000
MaxTicks == 2
\* Spec, ClientSpec, BrowserSpec, LateSpec and DaySpec follow at most MaxRequests events
\* from outside: a request sent, or a remote list call that fails
MaxRequests == 3
\* LiveSpec follows any number of reads and at most MaxWrites POST requests
MaxWrites == 1
\* PureSpec applies a function to lists of at most MaxLen records
MaxLen == 3

\* --------------------------------------------------------------- constants
CACHE_TTL == 60000
SLOT_START_HOUR == 9
SLOT_END_HOUR == 18
TOTAL_SLOTS == (SLOT_END_HOUR - SLOT_START_HOUR) * 2

MinuteMs == 60 * 1000
HourMs == 60 * MinuteMs
DayMs == 24 * HourMs
\* TIMEZONE = 'Pacific/Auckland' (NZDT): wall clock = UTC + 13h
TzOffsetMs == 13 * HourMs
\* BOOKING_WINDOW_START = '09:00', BOOKING_WINDOW_END = '18:00', in minutes of the day
WINDOW_START == 9 * 60
WINDOW_END == 18 * 60

Rooms == {"talking", "board"}
Dates == {1, 2}
\* the connections: a request in flight occupies one until its response is received
Clients == {"c1", "c2"}
\* the browsers that run the client
Browsers == {"b1", "b2"}

Max(a, b) == IF a >= b THEN a ELSE b
Min(a, b) == IF a <= b THEN a ELSE b

\* ------------------------------------------------------------ time helpers
\* date-fns-tz toZonedTime: a Date whose local fields show the zone's wall time
toZonedTime(t) == t + TzOffsetMs
\* date-fns-tz fromZonedTime: the instant whose wall time in the zone is w
fromZonedTime(w) == w - TzOffsetMs
\* Date.toISOString().slice(0, 10): the UTC calendar day of the Date
IsoDay(t) == t \div DayMs
\* toZonedTime(x, TIMEZONE).toISOString().slice(0, 10)
DateStrOf(t) == IsoDay(toZonedTime(t))

\* parseWindowTime(dateStr, 'HH:MM'): local midnight of dateStr, shifted to
\* the zone, its clock set to HH:MM, read back as an instant
parseWindowTime(dateStr, mins) ==
  LET zonedDate == toZonedTime(dateStr * DayMs)
      setHours  == IsoDay(zonedDate) * DayMs + mins * MinuteMs
  IN  fromZonedTime(setHours)

\* client: slotIndexToDate(dateStr, slotIndex)
slotIndexToDate(dateStr, slotIndex) ==
  LET totalMins == SLOT_START_HOUR * 60 + slotIndex * 30
      h == totalMins \div 60
      m == totalMins % 60
  IN  fromZonedTime(dateStr * DayMs + h * HourMs + m * MinuteMs)

\* ------------------------------------------------------- interval pipeline
\* Array.prototype.sort with (a, b) => a.start - b.start: stable, ascending
RECURSIVE InsertByStart(_, _)
InsertByStart(x, s) ==
  IF s = <<>> THEN <<x>>
  ELSE IF x.start < s[1].start THEN <<x>> \o s
  ELSE <<s[1]>> \o InsertByStart(x, Tail(s))

RECURSIVE SortByStart(_)
SortByStart(s) ==
  IF s = <<>> THEN <<>>
  ELSE InsertByStart(s[Len(s)], SortByStart(SubSeq(s, 1, Len(s) - 1)))

\* a loop that leaves two blocks apart when one ends where the other starts
RECURSIVE MergeLoopStrict(_, _, _)
MergeLoopStrict(merged, sorted, i) ==
  IF i > Len(sorted) THEN merged
  ELSE LET last == merged[Len(merged)]
       IN  IF sorted[i].start < last.end
           THEN MergeLoopStrict([merged EXCEPT ![Len(merged)].end = Max(last.end, sorted[i].end)],
                                sorted, i + 1)
           ELSE MergeLoopStrict(Append(merged, sorted[i]), sorted, i + 1)

\* a loop that compares each block with the block before it in the sorted list
\* instead of with the block merged so far
RECURSIVE MergeLoopAdjacent(_, _, _)
MergeLoopAdjacent(merged, sorted, i) ==
  IF i > Len(sorted) THEN merged
  ELSE LET last == merged[Len(merged)]
       IN  IF sorted[i].start <= sorted[i - 1].end
           THEN MergeLoopAdjacent([merged EXCEPT ![Len(merged)].end = Max(last.end, sorted[i].end)],
                                  sorted, i + 1)
           ELSE MergeLoopAdjacent(Append(merged, sorted[i]), sorted, i + 1)

\* a loop that gives the merged block the title of the block it takes in
RECURSIVE MergeLoopLastLabel(_, _, _)
MergeLoopLastLabel(merged, sorted, i) ==
  IF i > Len(sorted) THEN merged
  ELSE LET last == merged[Len(merged)]
       IN  IF sorted[i].start <= last.end
           THEN MergeLoopLastLabel(
                  [merged EXCEPT ![Len(merged)].end = Max(last.end, sorted[i].end),
                                 ![Len(merged)].title = sorted[i].title],
                  sorted, i + 1)
           ELSE MergeLoopLastLabel(Append(merged, sorted[i]), sorted, i + 1)

\* lines 53-60: the loop of mergeBlocks over the sorted copy
RECURSIVE MergeLoop(_, _, _)
MergeLoop(merged, sorted, i) ==
  IF i > Len(sorted) THEN merged
  ELSE LET last == merged[Len(merged)]
       IN  IF sorted[i].start <= last.end
           THEN MergeLoop([merged EXCEPT ![Len(merged)].end = Max(last.end, sorted[i].end)],
                          sorted, i + 1)
           ELSE MergeLoop(Append(merged, sorted[i]), sorted, i + 1)

mergeBlocks(blocks) ==
  IF Len(blocks) = 0 THEN <<>>
  ELSE LET sorted == SortByStart(blocks)
       IN  MergeLoop(<<sorted[1]>>, sorted, 2)

RECURSIVE SelectSeqBy(_, _)
\* keep the elements of s whose index is in the set keep (Array.prototype.filter)
SelectSeqBy(s, keep) ==
  IF s = <<>> THEN <<>>
  ELSE LET front == SelectSeqBy(SubSeq(s, 1, Len(s) - 1), keep)
       IN  IF Len(s) \in keep THEN Append(front, s[Len(s)]) ELSE front

\* the remote calendar's events.list(timeMin, timeMax, singleEvents, orderBy startTime)
EventsList(events, timeMin, timeMax) ==
  SortByStart(SelectSeqBy(events,
     {i \in 1..Len(events) : events[i].end > timeMin /\ events[i].start < timeMax}))

\* a normalization that does not clip
rawBlocksOfUnclipped(events, windowStart, windowEnd) ==
  LET timed   == SelectSeqBy(events, {i \in 1..Len(events) : events[i].timed})
      mapped  == [i \in 1..Len(timed) |->
                   [start |-> timed[i].start,
                    end   |-> timed[i].end,
                    title |-> IF timed[i].summary = "" THEN "Booked" ELSE timed[i].summary]]
  IN  SelectSeqBy(mapped, {i \in 1..Len(mapped) : mapped[i].start < mapped[i].end})

\* a normalization that keeps a clipped interval of length zero
rawBlocksOfKeepEmpty(events, windowStart, windowEnd) ==
  LET timed   == SelectSeqBy(events, {i \in 1..Len(events) : events[i].timed})
      clipped == [i \in 1..Len(timed) |->
                   [start |-> Max(timed[i].start, windowStart),
                    end   |-> Min(timed[i].end, windowEnd),
                    title |-> IF timed[i].summary = "" THEN "Booked" ELSE timed[i].summary]]
  IN  SelectSeqBy(clipped, {i \in 1..Len(clipped) : clipped[i].start <= clipped[i].end})

\* lines 82-89: keep timed events, clip to the window, drop empty intervals
rawBlocksOf(events, windowStart, windowEnd) ==
  LET timed   == SelectSeqBy(events, {i \in 1..Len(events) : events[i].timed})
      clipped == [i \in 1..Len(timed) |->
                   [start |-> Max(timed[i].start, windowStart),
                    end   |-> Min(timed[i].end, windowEnd),
                    title |-> IF timed[i].summary = "" THEN "Booked" ELSE timed[i].summary]]
  IN  SelectSeqBy(clipped, {i \in 1..Len(clipped) : clipped[i].start < clipped[i].end})

\* a catch block that reports the room as free
ErrorSnapshotFree ==
  [busyBlocks |-> <<>>, freeNow |-> TRUE, nextAvailable |-> <<>>,
   error |-> "Could not load calendar data"]
\* lines 115-122: what getRoomAvailability returns when events.list throws
ErrorSnapshot ==
  [busyBlocks |-> <<>>, freeNow |-> FALSE, nextAvailable |-> <<>>,
   error |-> "Could not load calendar data"]

\* an evaluation that takes the first busy block of the day for the current one
RoomSnapshotFirstBlock(events, dateStr, windowStart, windowEnd, now) ==
  LET merged  == mergeBlocks(rawBlocksOf(events, windowStart, windowEnd))
      isToday == dateStr = DateStrOf(now)
      inside  == isToday /\ now >= windowStart /\ now < windowEnd
      current == {i \in 1..Len(merged) : merged[i].start <= now /\ merged[i].end > now}
      freeNow == inside /\ current = {}
  IN  [busyBlocks    |-> merged,
       freeNow       |-> freeNow,
       nextAvailable |-> IF inside /\ ~freeNow THEN <<merged[1].end>> ELSE <<>>,
       error         |-> ""]

\* an evaluation that does not look at the booking window
RoomSnapshotAnyTime(events, dateStr, windowStart, windowEnd, now) ==
  LET merged  == mergeBlocks(rawBlocksOf(events, windowStart, windowEnd))
      current == {i \in 1..Len(merged) : merged[i].start <= now /\ merged[i].end > now}
      freeNow == current = {}
      first   == CHOOSE i \in current : \A j \in current : i <= j
  IN  [busyBlocks    |-> merged,
       freeNow       |-> freeNow,
       nextAvailable |-> IF ~freeNow THEN <<merged[first].end>> ELSE <<>>,
       error         |-> ""]

\* an evaluation that announces the end of the running or the coming block
RoomSnapshotUpcoming(events, dateStr, windowStart, windowEnd, now) ==
  LET merged  == mergeBlocks(rawBlocksOf(events, windowStart, windowEnd))
      isToday == dateStr = DateStrOf(now)
      inside  == isToday /\ now >= windowStart /\ now < windowEnd
      current == {i \in 1..Len(merged) : merged[i].start <= now /\ merged[i].end > now}
      coming  == {i \in 1..Len(merged) : merged[i].end > now}
      freeNow == inside /\ current = {}
      first   == CHOOSE i \in coming : \A j \in coming : i <= j
  IN  [busyBlocks    |-> merged,
       freeNow       |-> freeNow,
       nextAvailable |-> IF inside /\ coming # {} THEN <<merged[first].end>> ELSE <<>>,
       error         |-> ""]

\* getRoomAvailability once events.list has answered; now is the clock at that moment
RoomSnapshot(events, dateStr, windowStart, windowEnd, now) ==
  LET merged  == mergeBlocks(rawBlocksOf(events, windowStart, windowEnd))
      isToday == dateStr = DateStrOf(now)
      inside  == isToday /\ now >= windowStart /\ now < windowEnd
      current == {i \in 1..Len(merged) : merged[i].start <= now /\ merged[i].end > now}
      freeNow == inside /\ current = {}
      first   == CHOOSE i \in current : \A j \in current : i <= j
  IN  [busyBlocks    |-> merged,
       freeNow       |-> freeNow,
       nextAvailable |-> IF inside /\ ~freeNow THEN <<merged[first].end>> ELSE <<>>,
       error         |-> ""]

\* isSlotBusy, lines 93-95: the position in the list of the first block that
\* overlaps slot i, 0 when the loop ends without one
FirstOverlapInclusive(dateStr, i, blocks) ==
  LET s    == slotIndexToDate(dateStr, i)
      e    == slotIndexToDate(dateStr, i + 1)
      hits == {k \in 1..Len(blocks) : blocks[k].start <= e /\ blocks[k].end >= s}
  IN  IF hits = {} THEN 0 ELSE CHOOSE k \in hits : \A j \in hits : k <= j
FirstOverlap(dateStr, i, blocks) ==
  LET s    == slotIndexToDate(dateStr, i)
      e    == slotIndexToDate(dateStr, i + 1)
      hits == {k \in 1..Len(blocks) : blocks[k].start < e /\ blocks[k].end > s}
  IN  IF hits = {} THEN 0 ELSE CHOOSE k \in hits : \A j \in hits : k <= j

\* client: isSlotBusy(dateStr, i, blocks); <<>> is null
isSlotBusy(dateStr, i, blocks) ==
  LET k == FirstOverlap(dateStr, i, blocks)
  IN  IF k = 0 THEN <<>> ELSE <<blocks[k]>>

\* Math.ceil(a / b) for b > 0
CeilDiv(a, b) == -((-a) \div b)

\* client: blockHeightSlots(dateStr, i, block)
blockHeightSlots(dateStr, i, block) ==
  LET slotStart == slotIndexToDate(dateStr, i)
      eff       == IF slotStart > block.start THEN slotStart ELSE block.start
  IN  Max(1, CeilDiv(block.end - eff, 30 * MinuteMs))

\* client: renderSlots(room), lines 350-397, for the blocks of that room: per slot
\* i (at position i + 1) the busy block, whether the slot opens the dialog, the
\* position in the list of the block labelled there (0: no label) and the
\* label's height in slots; seen holds the starts of the blocks labelled so far
renderSlots(dateStr, blocks) ==
  [n \in 1..TOTAL_SLOTS |->
     LET i         == n - 1
         k         == FirstOverlap(dateStr, i, blocks)
         busyBlock == isSlotBusy(dateStr, i, blocks)
         seen      == {blocks[FirstOverlap(dateStr, j, blocks)].start :
                         j \in {x \in 0..i - 1 : FirstOverlap(dateStr, x, blocks) # 0}}
         labelled  == busyBlock # <<>> /\ busyBlock[1].start \notin seen
         isLast    == FALSE
     IN  [busyBlock |-> busyBlock,
          clickable |-> busyBlock = <<>> /\ ~isLast,
          label     |-> IF labelled THEN k ELSE 0,
          height    |-> IF labelled THEN blockHeightSlots(dateStr, i, busyBlock[1]) ELSE 0]]

\* a check that counts a block that only touches the proposal
durationConflictsInclusive(dateStr, slotStart, durationMins, blocks) ==
  LET start == IF durationMins = 480
               THEN fromZonedTime(dateStr * DayMs + 9 * HourMs) ELSE slotStart
      end   == start + durationMins * MinuteMs
      hits  == {i \in 1..Len(blocks) : blocks[i].start <= end /\ blocks[i].end >= start}
  IN  IF hits = {} THEN <<>>
      ELSE <<blocks[CHOOSE i \in hits : \A j \in hits : i <= j]>>

\* client: durationConflicts(dateStr, slotStart, durationMins, blocks); <<>> is null
durationConflicts(dateStr, slotStart, durationMins, blocks) ==
  LET start == IF durationMins = 480
               THEN fromZonedTime(dateStr * DayMs + 9 * HourMs) ELSE slotStart
      end   == start + durationMins * MinuteMs
      hits  == {i \in 1..Len(blocks) : blocks[i].start < end /\ blocks[i].end > start}
  IN  IF hits = {} THEN <<>>
      ELSE <<blocks[CHOOSE i \in hits : \A j \in hits : i <= j]>>


\* ------------------------------------------------------------------- Map
\* a JavaScript Map is a function whose domain is the set of its keys
MapHas(m, k) == k \in DOMAIN m
MapGet(m, k) == IF k \in DOMAIN m THEN <<m[k]>> ELSE <<>>
MapSet(m, k, v) == [x \in DOMAIN m \cup {k} |-> IF x = k THEN v ELSE m[x]]
MapDelete(m, k) == [x \in DOMAIN m \ {k} |-> m[x]]
MapClear(m) == <<>>

\* ----------------------------------------------------------------- state
VARIABLES
  now,                \* Date.now() / new Date()
  env,                \* which credentials the process environment holds
  calendar,           \* the remote calendars: room -> events in insertion order
  nextId,             \* the remote calendar's next event identity
  cache,              \* availability route: const cache = new Map()
  availabilityCache,  \* api/cache.ts: export const availabilityCache = new Map()
  req,                \* per caller: the request in flight and the handler's locals
  currentDate,        \* client state: currentDate
  data,               \* client state: data (<<>> is null)
  loading,            \* client state: loading
  bookingError,       \* client state: booking_error (<<>> is null)
  booking,            \* client state: booking, the dialog's target (<<>> is null)
  selectedDuration,   \* client state: selectedDuration
  isFlipped,          \* client state: isFlipped, the dialog shows its confirmation side
  viewing,            \* client state: viewing, the block looked at (<<>> is null)
  obs,                \* history, per request: what the handler was seen to do
  hist,               \* history, global: stores and remote writes
  spent,              \* history: how much of the budget of outside events is used
  probe               \* a pure function applied on its own: its arguments and its result

server == <<env, calendar, nextId, cache, availabilityCache>>
client == <<currentDate, data, loading, bookingError, booking, selectedDuration,
           isFlipped, viewing>>
vars == <<now, server, req, client, obs, hist, spent, probe>>

\* the process is observed from NZ 10:10:00 on date 1, ten minutes into slot 2
NowInit == fromZonedTime(1 * DayMs + 10 * HourMs + 10 * MinuteMs)
MaxNow == NowInit + MaxTicks * TickMs

\* by is the browser that sent the request and waits for its response, "" for
\* any other caller; plain says that a create request went to the create route
\* that knows no cache (part_001); lists holds, per room, what events.list has answered and
\* getRoomAvailability has not yet received; snaps holds the snapshots that
\* getRoomAvailability has returned
IdleReq ==
  [kind |-> "none", pc |-> "idle", by |-> "", plain |-> FALSE, date |-> 0,
   room |-> "", start |-> <<>>, durationMins |-> 0, business |-> "", eventId |-> 0,
   lists |-> [r \in Rooms |-> <<>>], snaps |-> [r \in Rooms |-> <<>>],
   remoteOk |-> FALSE, status |-> 0, body |-> <<>>]

\* a handler that has answered: its locals are gone, the response is on its way
Answered(r, status, body) ==
  [IdleReq EXCEPT !.kind = r.kind, !.by = r.by, !.pc = "done",
                  !.status = status, !.body = body,
                  \* the closure of the browser's handler keeps the date shown at
                  \* the click and the dialog's room, start, duration and business
                  !.date = IF r.by = "" \/ r.kind = "avail" THEN 0 ELSE r.date,
                  !.room = IF r.by = "" THEN "" ELSE r.room,
                  !.start = IF r.by = "" THEN <<>> ELSE r.start,
                  !.durationMins = IF r.by = "" THEN 0 ELSE r.durationMins,
                  !.business = IF r.by = "" THEN "" ELSE r.business]

\* no function has been applied on its own
NoProbe == [kind |-> "none"]

IdleObs ==
  [hit |-> FALSE, calls |-> 0, date |-> 0, sawAge |-> <<>>, sawData |-> <<>>,
   afterCreate |-> FALSE, sawRaced |-> FALSE, preMut |-> {}, raced |-> FALSE,
   overtaken |-> FALSE, invalidated |-> <<>>, writes |-> 0, missing |-> {},
   failed |-> {}]

NoEvents == [r \in Rooms |-> <<>>]
\* a reservation made directly in the calendar before the process started
PreEvent ==
  [id |-> MaxRequests + 1, start |-> slotIndexToDate(1, 3), end |-> slotIndexToDate(1, 4),
   summary |-> "[Baker]", timed |-> TRUE]

\* the state when the process has started and the browsers have opened the
\* page, at the instant t
InitAt(t) ==
  /\ now = t
  /\ env \in [availCreds : BOOLEAN, writeCreds : BOOLEAN]
  /\ calendar = [NoEvents EXCEPT !["board"] = <<PreEvent>>]
  /\ nextId = 1
  /\ cache = <<>>
  /\ availabilityCache = <<>>
  /\ req = [c \in Clients |-> IdleReq]
  /\ currentDate = [b \in Browsers |-> DateStrOf(now)]
  /\ data = [b \in Browsers |-> <<>>]
  /\ loading = [b \in Browsers |-> TRUE]
  /\ bookingError = [b \in Browsers |-> <<>>]
  /\ booking = [b \in Browsers |-> <<>>]
  /\ selectedDuration = [b \in Browsers |-> 30]
  /\ isFlipped = [b \in Browsers |-> FALSE]
  /\ viewing = [b \in Browsers |-> <<>>]
  /\ obs = [c \in Clients |-> IdleObs]
  /\ hist = [dirty      |-> [d \in Dates |-> FALSE],
             lastStored |-> [d \in Dates |-> <<>>],
             racedEntry |-> [d \in Dates |-> FALSE]]
  /\ spent = [requests |-> 0]
  /\ probe = NoProbe

Init == InitAt(NowInit)

\* --------------------------------------------------------------- the clock
Tick ==
  /\ now < MaxNow
  /\ now' = now + TickMs
  /\ UNCHANGED <<server, req, client, obs, hist>>

\* ------------------------------------------------- availability route: GET
\* an entry that is still served at the age of exactly CACHE_TTL
CacheFreshInclusive(entry, t) == t - entry.ts <= CACHE_TTL
\* lines 139-140: cached && Date.now() - cached.ts < CACHE_TTL
CacheFresh(entry, t) == t - entry.ts < CACHE_TTL
\* a lookup that serves whatever entry there is, at any age
CacheLookupAnyAge(m, key, t) ==
  LET cached == MapGet(m, key)
  IN  IF cached # <<>> THEN <<cached[1].data>> ELSE <<>>
CacheLookup(m, key, t) ==
  LET cached == MapGet(m, key)
  IN  IF cached # <<>> /\ CacheFresh(cached[1], t) THEN <<cached[1].data>> ELSE <<>>
\* a cache with sliding expiry: a hit restarts the entry's lifetime
CacheTouchOnHit(m, key, t) == [m EXCEPT ![key].ts = t]
\* lines 140-142: a hit answers from the entry and writes nothing
CacheAfterHit(m, key, t) == m

\* a store that writes the response field by field and is interrupted: the
\* entry keeps the board room snapshot of the run before
CacheStoreTorn(m, key, d, t) ==
  MapSet(m, key, [data |-> IF MapHas(m, key)
                           THEN [d EXCEPT !.boardRoom = m[key].data.boardRoom]
                           ELSE d,
                  ts |-> t])
\* a store that keeps a response out of the cache when a room failed to load
CacheStoreHealthy(m, key, d, t) ==
  IF d.talkingRoom.error # "" \/ d.boardRoom.error # "" THEN m
  ELSE MapSet(m, key, [data |-> d, ts |-> t])
\* line 160: cache.set(cacheKey, { data, ts: Date.now() })
CacheStore(m, key, d, t) == MapSet(m, key, [data |-> d, ts |-> t])

\* a getAuthClient that builds a client from whatever the environment holds
getAuthClientLenient(e) == FALSE
\* lines 31-40: getAuthClient throws when GOOGLE_SERVICE_ACCOUNT_JSON_BASE64 is
\* unset or does not decode to JSON; availCreds says that it is set and decodes
getAuthClientThrows(e) == ~e.availCreds

\* lines 131-152: the handler's turn from the arrival of the request to its
\* first await; the two list calls are sent (lines 73-79, through Promise.all of
\* lines 154-157).  The request comes from a caller that is no browser of the
\* model (by = ""), or it is the one browser by has put on connection c
GetStart(c, dateParam, by) ==
  /\ IF by = "" THEN req[c].pc = "idle"
     ELSE /\ req[c].pc = "sent" /\ req[c].kind = "avail" /\ req[c].by = by
          /\ dateParam = <<req[c].date>>
  /\ LET dateStr == IF dateParam # <<>> THEN dateParam[1] ELSE DateStrOf(now)
         found   == CacheLookup(cache, dateStr, now)
         base    == [IdleReq EXCEPT !.kind = "avail", !.by = by, !.date = dateStr]
         last    == hist.lastStored[dateStr]
         seen    == [IdleObs EXCEPT
                       !.date = dateStr,
                       !.sawAge = IF last = <<>> THEN <<>> ELSE <<now - last[1].ts>>,
                       !.sawData = IF last = <<>> THEN <<>> ELSE <<last[1].data>>,
                       !.afterCreate = hist.dirty[dateStr],
                       !.sawRaced = hist.racedEntry[dateStr]]
     IN  /\ IF found # <<>>
            THEN /\ req' = [req EXCEPT ![c] = Answered(base, 200, found)]
                 /\ cache' = CacheAfterHit(cache, dateStr, now)
                 /\ obs' = [obs EXCEPT ![c] = [seen EXCEPT !.hit = TRUE]]
            ELSE IF getAuthClientThrows(env)
            THEN /\ req' = [req EXCEPT ![c] =
                      Answered(base, 500, <<[error |-> "Server configuration error"]>>)]
                 /\ obs' = [obs EXCEPT ![c] = seen]
                 /\ UNCHANGED cache
            ELSE /\ req' = [req EXCEPT ![c] = [base EXCEPT !.pc = "fetching"]]
                 /\ obs' = [obs EXCEPT ![c] =
                      [seen EXCEPT !.calls = Cardinality(Rooms)]]
                 /\ UNCHANGED cache
         /\ hist' = [hist EXCEPT !.dirty[dateStr] = FALSE]
  /\ UNCHANGED <<now, env, calendar, nextId, availabilityCache>>

\* the remote calendar evaluates events.list of one room (lines 73-79) on the
\* calendar as it is at that moment, or fails; its answer travels back
RemoteList(c, room, ok) ==
  /\ req[c].kind = "avail" /\ req[c].pc = "fetching"
  /\ req[c].lists[room] = <<>> /\ req[c].snaps[room] = <<>>
  /\ LET windowStart == parseWindowTime(req[c].date, WINDOW_START)
         windowEnd   == parseWindowTime(req[c].date, WINDOW_END)
         events      == IF ok THEN EventsList(calendar[room], windowStart, windowEnd)
                        ELSE <<>>
     IN  req' = [req EXCEPT ![c].lists[room] = <<[ok |-> ok, events |-> events]>>]
  /\ UNCHANGED <<now, server, client, obs, hist>>

\* lines 81-123 and 157-162: the answer of events.list of one room reaches
\* getRoomAvailability, which resumes after its await (or in its catch), reads
\* the clock and returns that room's snapshot; when it is the second of the
\* two, Promise.all resolves and the handler assembles, stores and responds in
\* the same turn
GetFetch(c, room) ==
  /\ req[c].kind = "avail" /\ req[c].pc = "fetching"
  /\ req[c].lists[room] # <<>> /\ req[c].snaps[room] = <<>>
  /\ LET dateStr     == req[c].date
         windowStart == parseWindowTime(dateStr, WINDOW_START)
         windowEnd   == parseWindowTime(dateStr, WINDOW_END)
         ok          == req[c].lists[room][1].ok
         events      == req[c].lists[room][1].events
         snap        == IF ok THEN RoomSnapshot(events, dateStr, windowStart, windowEnd, now)
                        ELSE ErrorSnapshot
         snaps       == [req[c].snaps EXCEPT ![room] = <<snap>>]
     IN  IF \E r \in Rooms : snaps[r] = <<>>
         THEN /\ req' = [req EXCEPT ![c].snaps = snaps, ![c].lists[room] = <<>>]
              /\ obs' = [obs EXCEPT ![c].failed = IF ok THEN @ ELSE @ \cup {room}]
              /\ UNCHANGED <<cache, hist>>
         ELSE LET d == [talkingRoom |-> snaps["talking"][1],
                        boardRoom   |-> snaps["board"][1],
                        date        |-> dateStr]
              IN  /\ cache' = CacheStore(cache, dateStr, d, now)
                  /\ req' = [req EXCEPT ![c] = Answered(req[c], 200, <<d>>)]
                  /\ obs' = [o \in Clients |->
                       IF o # c /\ req[o].kind = "avail" /\ req[o].pc = "fetching"
                                /\ req[o].date = dateStr
                       THEN [obs[o] EXCEPT !.overtaken = TRUE]
                       ELSE IF o = c /\ ~ok THEN [obs[o] EXCEPT !.failed = @ \cup {room}]
                       ELSE obs[o]]
                  /\ hist' = [hist EXCEPT
                       !.lastStored[dateStr] = <<[data |-> d, ts |-> now]>>,
                       !.racedEntry[dateStr] = obs[c].raced,
                       !.dirty[dateStr] = FALSE]
  /\ UNCHANGED <<now, env, calendar, nextId, availabilityCache, client>>

\* ------------------------------------------------------- book route: POST
\* the avail requests that hold a listing or a snapshot of this room and date
\* taken before a write
HoldersOf(room, dateStr) ==
  {o \in Clients : /\ req[o].kind = "avail" /\ req[o].pc = "fetching"
                   /\ req[o].date = dateStr
                   /\ (req[o].lists[room] # <<>> \/ req[o].snaps[room] # <<>>)}
\* those among them whose snapshot is still on its way to the cache
RacersOf(c, dates) ==
  {o \in Clients : /\ req[o].kind = "avail" /\ req[o].pc = "fetching"
                   /\ req[o].date \in dates /\ c \in obs[o].preMut}

\* room === 'talking' ? TALKING_CALENDAR_ID : BOARD_CALENDAR_ID
CalendarOf(room) == IF room = "talking" THEN "talking" ELSE "board"

\* a test of the required fields that looks at the last of them only
AnyFalsyLastOnly(falsy) == falsy[Len(falsy)]
\* !a || !b || ...: falsy says, field by field in the order the handler tests
\* them, whether the body's value is falsy (absent, '', 0)
AnyFalsy(falsy) == \E i \in 1..Len(falsy) : falsy[i]

\* book line 28: !room || !start || !durationMins || !business
BookBodyRejected(room, start, durationMins, business) ==
  AnyFalsy(<<room = "", start = <<>>, durationMins = 0, business = "">>)

\* lines 26-37: the request arrives; parse the body, validate, build the client,
\* call events.insert
PostBook(c, by, room, start, durationMins, business) ==
  /\ IF by = "" THEN req[c].pc = "idle"
     ELSE /\ req[c].pc = "sent" /\ req[c].kind = "book" /\ req[c].by = by
          /\ req[c].room = room /\ req[c].start = start
          /\ req[c].durationMins = durationMins /\ req[c].business = business
  /\ LET base == [IdleReq EXCEPT !.kind = "book", !.by = by, !.room = room,
                                 !.start = start, !.durationMins = durationMins,
                                 !.business = business,
                                 \* the browser's closure: currentDate at the click
                                 !.date = IF by = "" THEN 0 ELSE req[c].date]
         \* history: the fields the body lacks
         seen == [IdleObs EXCEPT !.missing =
                    {f \in {"room"} : room = ""} \cup {f \in {"start"} : start = <<>>}
                    \cup {f \in {"durationMins"} : durationMins = 0}
                    \cup {f \in {"business"} : business = ""}]
     IN  IF BookBodyRejected(room, start, durationMins, business)
         THEN /\ req' = [req EXCEPT ![c] =
                   Answered(base, 400, <<[error |-> "Missing required fields"]>>)]
              /\ obs' = [obs EXCEPT ![c] = seen]
         ELSE IF ~env.writeCreds
         THEN /\ req' = [req EXCEPT ![c] =
                   Answered(base, 500, <<[error |-> "Failed to create booking"]>>)]
              /\ obs' = [obs EXCEPT ![c] = seen]
         ELSE /\ req' = [req EXCEPT ![c] = [base EXCEPT !.pc = "inserting"]]
              /\ obs' = [obs EXCEPT ![c] = [seen EXCEPT !.writes = 1]]
  /\ UNCHANGED <<now, server, client, hist>>

\* the create route that knows no cache (part_001), lines 22-35: parse the body,
\* validate, build the client, call events.insert
PostBookPlain(c, room, start, durationMins, business) ==
  /\ req[c].pc = "idle"
  /\ LET base == [IdleReq EXCEPT !.kind = "book", !.plain = TRUE, !.room = room,
                                 !.start = start, !.durationMins = durationMins,
                                 !.business = business]
         \* history: the fields the body lacks
         seen == [IdleObs EXCEPT !.missing =
                    {f \in {"room"} : room = ""} \cup {f \in {"start"} : start = <<>>}
                    \cup {f \in {"durationMins"} : durationMins = 0}
                    \cup {f \in {"business"} : business = ""}]
     IN  IF BookBodyRejected(room, start, durationMins, business)
         THEN /\ req' = [req EXCEPT ![c] =
                   Answered(base, 400, <<[error |-> "Missing required fields"]>>)]
              /\ obs' = [obs EXCEPT ![c] = seen]
         ELSE IF ~env.writeCreds
         THEN /\ req' = [req EXCEPT ![c] =
                   Answered(base, 500, <<[error |-> "Failed to create booking"]>>)]
              /\ obs' = [obs EXCEPT ![c] = seen]
         ELSE /\ req' = [req EXCEPT ![c] = [base EXCEPT !.pc = "inserting"]]
              /\ obs' = [obs EXCEPT ![c] = [seen EXCEPT !.writes = 1]]
  /\ UNCHANGED <<now, server, client, hist>>

\* the remote calendar performs events.insert of either create route, or
\* reports a failure
RemoteInsert(c, ok) ==
  /\ req[c].kind = "book" /\ req[c].pc = "inserting"
  /\ LET cal       == CalendarOf(req[c].room)
         startDate == req[c].start[1]
         endDate   == startDate + req[c].durationMins * 60000
         event     == [id |-> nextId, start |-> startDate, end |-> endDate,
                       summary |-> "[" \o req[c].business \o "]", timed |-> TRUE]
         holders   == HoldersOf(cal, DateStrOf(startDate))
     IN  IF ok
         THEN /\ calendar' = [calendar EXCEPT ![cal] = Append(@, event)]
              /\ nextId' = nextId + 1
              /\ obs' = [o \in Clients |->
                           IF o \in holders THEN [obs[o] EXCEPT !.preMut = @ \cup {c}]
                           ELSE obs[o]]
         ELSE UNCHANGED <<calendar, nextId, obs>>
  /\ req' = [req EXCEPT ![c].pc = "inserted", ![c].remoteOk = ok]
  /\ UNCHANGED <<now, env, cache, availabilityCache, client, hist>>

\* the continuation of await insert (part_002 lines 48-57, part_001 lines
\* 44-48): succeeded selects the try block's answer or the catch block's,
\* invalidate whether availabilityCache.delete (part_002 line 51) runs
BookSettle(c, succeeded, invalidate) ==
  /\ req[c].kind = "book" /\ req[c].pc = "inserted"
  /\ LET dateStr == DateStrOf(req[c].start[1])
         racers  == IF invalidate THEN RacersOf(c, {dateStr}) ELSE {}
     IN  /\ availabilityCache' = IF invalidate THEN MapDelete(availabilityCache, dateStr)
                                 ELSE availabilityCache
         /\ req' = [req EXCEPT ![c] =
               IF succeeded THEN Answered(req[c], 200, <<[success |-> TRUE]>>)
               ELSE Answered(req[c], 500, <<[error |-> "Failed to create booking"]>>)]
         /\ obs' = [o \in Clients |->
                      IF o = c
                      THEN IF invalidate
                           THEN [obs[c] EXCEPT !.invalidated = <<{dateStr}>>, !.date = dateStr]
                           ELSE obs[c]
                      ELSE IF o \in racers THEN [obs[o] EXCEPT !.raced = TRUE]
                      ELSE obs[o]]
         /\ hist' = IF succeeded
                    THEN [hist EXCEPT !.dirty =
                            [d \in Dates |-> IF d = dateStr THEN TRUE ELSE @[d]]]
                    ELSE hist
  /\ UNCHANGED <<now, env, calendar, nextId, cache, client>>

\* a handler that does not wait for the insert: it invalidates and answers 200
\* whatever the remote calendar said
BookResumeUnawaited(c) == BookSettle(c, TRUE, TRUE)
\* await insert resolved: lines 48-53; it threw: lines 54-57
BookResume(c) == ~req[c].plain /\ BookSettle(c, req[c].remoteOk, req[c].remoteOk)
\* the same in the route that knows no cache: part_001 lines 44 and 45-48
BookPlainResume(c) == req[c].plain /\ BookSettle(c, req[c].remoteOk, FALSE)

\* ----------------------------------------------------- remove route: POST
\* remove line 28: !room || !eventId
RemoveBodyRejected(room, eventId) == AnyFalsy(<<room = "", eventId = 0>>)

\* lines 26-36: the request arrives; parse the body, validate, build the client,
\* call events.delete
PostRemove(c, by, room, eventId, start) ==
  /\ IF by = "" THEN req[c].pc = "idle"
     ELSE /\ req[c].pc = "sent" /\ req[c].kind = "remove" /\ req[c].by = by
          /\ req[c].room = room /\ req[c].eventId = eventId /\ req[c].start = start
  /\ LET base == [IdleReq EXCEPT !.kind = "remove", !.by = by, !.room = room,
                                 !.eventId = eventId, !.start = start]
         \* history: the fields the body lacks
         seen == [IdleObs EXCEPT !.missing =
                    {f \in {"room"} : room = ""} \cup {f \in {"eventId"} : eventId = 0}]
     IN  IF RemoveBodyRejected(room, eventId)
         THEN /\ req' = [req EXCEPT ![c] =
                   Answered(base, 400, <<[error |-> "Missing required fields"]>>)]
              /\ obs' = [obs EXCEPT ![c] = seen]
         ELSE IF ~env.writeCreds
         THEN /\ req' = [req EXCEPT ![c] =
                   Answered(base, 500, <<[error |-> "Failed to remove booking"]>>)]
              /\ obs' = [obs EXCEPT ![c] = seen]
         ELSE /\ req' = [req EXCEPT ![c] = [base EXCEPT !.pc = "deleting"]]
              /\ obs' = [obs EXCEPT ![c] = [seen EXCEPT !.writes = 1]]
  /\ UNCHANGED <<now, server, client, hist>>

EventIndex(events, eventId) == {i \in 1..Len(events) : events[i].id = eventId}

\* the remote calendar performs events.delete; an unknown identity is a failure
RemoteDelete(c, ok) ==
  /\ req[c].kind = "remove" /\ req[c].pc = "deleting"
  /\ LET cal == CalendarOf(req[c].room)
         at  == EventIndex(calendar[cal], req[c].eventId)
     IN  /\ ok => at # {}
         /\ IF ok
            THEN LET gone    == calendar[cal][CHOOSE i \in at : TRUE]
                     holders == HoldersOf(cal, DateStrOf(gone.start))
                 IN  /\ calendar' = [calendar EXCEPT ![cal] =
                           SelectSeqBy(@, (1..Len(@)) \ at)]
                     /\ obs' = [o \in Clients |->
                                  IF o \in holders THEN [obs[o] EXCEPT !.preMut = @ \cup {c}]
                                  ELSE obs[o]]
            ELSE UNCHANGED <<calendar, obs>>
  /\ req' = [req EXCEPT ![c].pc = "deleted", ![c].remoteOk = ok]
  /\ UNCHANGED <<now, env, nextId, cache, availabilityCache, client, hist>>

\* lines 38-51, the continuation of await delete: succeeded selects the try
\* block's answer or the catch block's, invalidate whether lines 40-45 run
RemoveSettle(c, succeeded, invalidate) ==
  /\ req[c].kind = "remove" /\ req[c].pc = "deleted"
  /\ LET byDate  == req[c].start # <<>>
         dateStr == DateStrOf(req[c].start[1])
         dates   == IF byDate THEN {dateStr} ELSE Dates
         racers  == IF invalidate THEN RacersOf(c, dates) ELSE {}
     IN  /\ availabilityCache' =
               IF ~invalidate THEN availabilityCache
               ELSE IF byDate THEN MapDelete(availabilityCache, dateStr)
               ELSE MapClear(availabilityCache)
         /\ req' = [req EXCEPT ![c] =
               IF succeeded THEN Answered(req[c], 200, <<[success |-> TRUE]>>)
               ELSE Answered(req[c], 500, <<[error |-> "Failed to remove booking"]>>)]
         /\ obs' = [o \in Clients |->
                      IF o = c
                      THEN IF invalidate THEN [obs[c] EXCEPT !.invalidated = <<dates>>]
                           ELSE obs[c]
                      ELSE IF o \in racers THEN [obs[o] EXCEPT !.raced = TRUE]
                      ELSE obs[o]]
  /\ UNCHANGED <<now, env, calendar, nextId, cache, client, hist>>

\* a handler that invalidates in a finally block, after a failed delete too
RemoveResumeFinally(c) == RemoveSettle(c, req[c].remoteOk, TRUE)
\* await delete resolved: lines 38-47; it threw: lines 48-51
RemoveResume(c) == RemoveSettle(c, req[c].remoteOk, req[c].remoteOk)

\* ------------------------------------------------------ any HTTP caller
\* bodies a caller may send: talking on date 1, board on date 2, or a field missing
BookBodies ==
  LET one  == [room |-> "talking", start |-> <<slotIndexToDate(1, 2)>>,
               durationMins |-> 30, business |-> "Hunch"]
      good == {one, [one EXCEPT !.room = "board", !.start = <<slotIndexToDate(2, 2)>>]}
  IN  good \cup {[one EXCEPT !.room = ""], [one EXCEPT !.start = <<>>],
                 [one EXCEPT !.durationMins = 0], [one EXCEPT !.business = ""]}

\* GET /api/availability, with or without ?date=
RawGet(c) ==
  /\ \E dateParam \in {<<>>} \cup {<<d>> : d \in Dates} : GetStart(c, dateParam, "")
  /\ UNCHANGED client

\* POST /api/book with any body
RawBook(c) ==
  \E b \in BookBodies : PostBook(c, "", b.room, b.start, b.durationMins, b.business)

\* POST to the create route that knows no cache, with any body
RawBookPlain(c) ==
  \E b \in BookBodies : PostBookPlain(c, b.room, b.start, b.durationMins, b.business)

\* POST /api/remove with any body: with or without the room, and without an
\* event identity or with that of an event of some room, with or without its start
RawRemove(c) ==
  \E room \in Rooms \cup {""} :
    \/ PostRemove(c, "", room, 0, <<>>)
    \/ \E of \in Rooms : \E i \in 1..Len(calendar[of]) : \E withStart \in BOOLEAN :
         /\ room \in {of, ""}
         /\ PostRemove(c, "", room, calendar[of][i].id,
                       IF withStart THEN <<calendar[of][i].start>> ELSE <<>>)

\* ------------------------------------------------------------- the client
\* data?.talkingRoom / data?.boardRoom, then rd?.busyBlocks || []
RoomKey(room) == IF room = "talking" THEN "talkingRoom" ELSE "boardRoom"
BlocksOf(dat, room) ==
  IF dat = <<>> THEN <<>>
  ELSE IF RoomKey(room) \notin DOMAIN dat[1] THEN <<>>
  ELSE dat[1][RoomKey(room)].busyBlocks

\* a render or a state updater that throws unmounts the component: its timers
\* are cleared and no handler of it runs again
Crashed == <<[crashed |-> TRUE]>>
Alive(b) == data[b] # Crashed

\* lines 539-552: the grid of a room is drawn when loading is false and the
\* room's snapshot carries no error
GridShown(b, room) ==
  /\ Alive(b) /\ ~loading[b]
  /\ data[b] # <<>> => data[b][1][RoomKey(room)].error = ""
\* the dialogs cover the page (position fixed, inset 0, lines 585-588 and 757-760)
NoOverlay(b) == booking[b] = <<>> /\ viewing[b] = <<>>
\* the component has sent its first fetch
Mounted(b) == data[b] # <<>> \/ \E c \in Clients : req[c].by = b
\* removing (lines 327 and 345-347): true from the fetch of handleRemove to its finally
Removing(b) == \E c \in Clients : req[c].by = b /\ req[c].kind = "remove"

\* new Date(y, m, d, 9, 0, 0) of the browser: 09:00 local on slotStart's local day
LocalNine(slotStart) ==
  fromZonedTime(IsoDay(toZonedTime(slotStart)) * DayMs + 9 * HourMs)

\* handleBookNow, lines 290-292: the start written into the create request
SubmittedStart(slotStart, selectedDuration_) ==
  IF selectedDuration_ = 480 THEN LocalNine(slotStart) ELSE slotStart

\* fetch(...) has been called by browser b on connection c and the page's turn
\* ends at its await: the request is on its way to the server, and the closure
\* of the page's handler holds what the continuation will use
Sent(kind, b, date) ==
  [IdleReq EXCEPT !.kind = kind, !.pc = "sent", !.by = b, !.date = date]

\* fetchData(currentDate), lines 218-220: sent by the effect when the component
\* mounts, by the poll timer or by visibilitychange, whatever else is in flight
ClientFetch(b, c) ==
  /\ Alive(b)
  /\ req[c].pc = "idle"
  /\ req' = [req EXCEPT ![c] = Sent("avail", b, currentDate[b])]
  /\ UNCHANGED <<now, server, client, obs, hist>>

\* the request of a browser reaches the server, whatever has happened since it
\* was sent: the GET handler runs up to its first await
FetchArrives(c) ==
  /\ req[c].pc = "sent" /\ req[c].kind = "avail"
  /\ GetStart(c, <<req[c].date>>, req[c].by)
  /\ UNCHANGED client
\* the same for a create request and for a delete request
BookArrives(c) ==
  /\ req[c].pc = "sent" /\ req[c].kind = "book"
  /\ PostBook(c, req[c].by, req[c].room, req[c].start, req[c].durationMins,
              req[c].business)
RemoveArrives(c) ==
  /\ req[c].pc = "sent" /\ req[c].kind = "remove"
  /\ PostRemove(c, req[c].by, req[c].room, req[c].eventId, req[c].start)

\* setCurrentDate from the arrows or the day picker (dates before today are
\* disabled), then the effect of lines 226-232: setLoading(true) and
\* fetchData(currentDate) for the new date; a fetch in flight is not cancelled,
\* and a dialog that is open stays open (the arrows take the keyboard)
setCurrentDate(b, c, date) ==
  /\ Alive(b) /\ Mounted(b)
  /\ date # currentDate[b] /\ date >= DateStrOf(now)
  /\ req[c].pc = "idle"
  /\ currentDate' = [currentDate EXCEPT ![b] = date]
  /\ loading' = [loading EXCEPT ![b] = TRUE]
  /\ req' = [req EXCEPT ![c] = Sent("avail", b, date)]
  /\ UNCHANGED <<now, server, data, bookingError, booking, selectedDuration, isFlipped,
                 viewing, obs, hist>>

\* openModal, lines 260-267, from the click on a slot that is not busy (line 395)
openModal(b, room, slotIndex) ==
  /\ GridShown(b, room) /\ NoOverlay(b)
  /\ isSlotBusy(currentDate[b], slotIndex, BlocksOf(data[b], room)) = <<>>
  /\ selectedDuration' = [selectedDuration EXCEPT ![b] = 30]
  /\ bookingError' = [bookingError EXCEPT ![b] = <<>>]
  /\ booking' = [booking EXCEPT ![b] =
        <<[room |-> room, slotStart |-> slotIndexToDate(currentDate[b], slotIndex)]>>]
  /\ isFlipped' = [isFlipped EXCEPT ![b] = FALSE]
  /\ UNCHANGED <<now, server, req, currentDate, data, loading, viewing, obs, hist>>

\* setBooking(null), lines 587, 607, 700 and 731
closeModal(b) ==
  /\ Alive(b) /\ booking[b] # <<>>
  /\ booking' = [booking EXCEPT ![b] = <<>>]
  /\ UNCHANGED <<now, server, req, currentDate, data, loading, bookingError,
                 selectedDuration, isFlipped, viewing, obs, hist>>

\* the duration buttons, lines 619-656: a duration that conflicts with the
\* loaded blocks is not taken
selectDuration(b, d) ==
  /\ Alive(b) /\ booking[b] # <<>>
  /\ LET conflicted == durationConflicts(currentDate[b], booking[b][1].slotStart, d,
                                         BlocksOf(data[b], booking[b][1].room)) # <<>>
     IN  IF conflicted THEN UNCHANGED <<selectedDuration, bookingError>>
         ELSE /\ selectedDuration' = [selectedDuration EXCEPT ![b] = d]
              /\ bookingError' = [bookingError EXCEPT ![b] = <<>>]
  /\ UNCHANGED <<now, server, req, currentDate, data, loading, booking, isFlipped,
                 viewing, obs, hist>>

\* a dialog that submits without looking at the loaded blocks
handleBookNowUnchecked(b, c, selectedBusiness) ==
  /\ Alive(b) /\ booking[b] # <<>>
  /\ req[c].pc = "idle"
  /\ bookingError' = [bookingError EXCEPT ![b] = <<>>]
  /\ req' = [req EXCEPT ![c] =
        [Sent("book", b, currentDate[b]) EXCEPT
           !.room = booking[b][1].room,
           !.start = <<SubmittedStart(booking[b][1].slotStart, selectedDuration[b])>>,
           !.durationMins = selectedDuration[b],
           !.business = selectedBusiness]]
  /\ UNCHANGED <<now, server, currentDate, data, loading, booking,
                 selectedDuration, isFlipped, viewing, obs, hist>>

\* handleBookNow, lines 269-296, from the click on 'Book now' (line 679), a
\* button that is in the document, and enabled, as long as the dialog is
\* (isFlipped only turns its side of the card away)
handleBookNow(b, c, selectedBusiness) ==
  /\ Alive(b) /\ booking[b] # <<>>
  /\ LET blocks   == BlocksOf(data[b], booking[b][1].room)
         conflict == durationConflicts(currentDate[b], booking[b][1].slotStart,
                                       selectedDuration[b], blocks)
     IN  IF conflict # <<>>
         THEN /\ bookingError' = [bookingError EXCEPT ![b] =
                    <<[kind |-> "conflict", at |-> conflict[1].start]>>]
              /\ UNCHANGED <<now, server, req, currentDate, data, loading, booking,
                             selectedDuration, isFlipped, viewing, obs, hist>>
         ELSE /\ req[c].pc = "idle"
              /\ bookingError' = [bookingError EXCEPT ![b] = <<>>]
              /\ req' = [req EXCEPT ![c] =
                    [Sent("book", b, currentDate[b]) EXCEPT
                       !.room = booking[b][1].room,
                       !.start = <<SubmittedStart(booking[b][1].slotStart,
                                                  selectedDuration[b])>>,
                       !.durationMins = selectedDuration[b],
                       !.business = selectedBusiness]]
              /\ UNCHANGED <<now, server, currentDate, data, loading, booking,
                             selectedDuration, isFlipped, viewing, obs, hist>>

\* setViewing, line 373, from the click on the label of block i of the room
setViewing(b, room, i) ==
  /\ GridShown(b, room) /\ NoOverlay(b)
  /\ \E n \in 1..TOTAL_SLOTS :
       renderSlots(currentDate[b], BlocksOf(data[b], room))[n].label = i
  /\ viewing' = [viewing EXCEPT ![b] = <<[room |-> room, block |-> BlocksOf(data[b], room)[i]]>>]
  /\ UNCHANGED <<now, server, req, currentDate, data, loading, bookingError, booking,
                 selectedDuration, isFlipped, obs, hist>>

\* setViewing(null), lines 759, 768 and 792
closeViewing(b) ==
  /\ Alive(b) /\ viewing[b] # <<>>
  /\ viewing' = [viewing EXCEPT ![b] = <<>>]
  /\ UNCHANGED <<now, server, req, currentDate, data, loading, bookingError, booking,
                 selectedDuration, isFlipped, obs, hist>>

\* handleRemove, lines 325-333, from the 'Remove' button (disabled while
\* removing, line 800): the block being viewed carries no eventId
handleRemove(b, c) ==
  /\ Alive(b) /\ viewing[b] # <<>> /\ ~Removing(b)
  /\ req[c].pc = "idle"
  /\ req' = [req EXCEPT ![c] =
        [Sent("remove", b, currentDate[b]) EXCEPT
           !.room = viewing[b][1].room, !.eventId = 0,
           !.start = <<viewing[b][1].block.start>>]]
  /\ UNCHANGED <<now, server, client, obs, hist>>

\* the browser receives the response: the continuation after await fetch(...),
\* with the values its handler closed over when it sent the request
Receive(c) ==
  /\ req[c].pc = "done"
  /\ req' = [req EXCEPT ![c] = IdleReq]
  /\ obs' = [obs EXCEPT ![c] = IdleObs]
  /\ LET b == req[c].by
     IN  IF b = "" THEN UNCHANGED client
         \* the component is gone: its state updates are dropped
         ELSE IF ~Alive(b) THEN UNCHANGED client
         ELSE IF req[c].kind = "avail"
         \* fetchData, lines 221-223: setData(json), whatever the status and the
         \* date asked for, and setLoading(false); the render that follows reads
         \* data.talkingRoom.error (line 545) and throws when json has no talkingRoom
         THEN /\ data' = [data EXCEPT ![b] =
                    IF "talkingRoom" \in DOMAIN req[c].body[1] THEN req[c].body
                    ELSE Crashed]
              /\ loading' = [loading EXCEPT ![b] = FALSE]
              /\ UNCHANGED <<currentDate, bookingError, booking, selectedDuration,
                             isFlipped, viewing>>
         ELSE IF req[c].kind = "book"
         \* handleBookNow, lines 297-317
         THEN IF req[c].status # 200
              THEN /\ bookingError' = [bookingError EXCEPT ![b] =
                         <<[kind |-> "failed", at |-> 0]>>]
                   /\ UNCHANGED <<currentDate, data, loading, booking, selectedDuration,
                                  isFlipped, viewing>>
              ELSE LET actualStart == IF req[c].durationMins = 480
                                      THEN fromZonedTime(req[c].date * DayMs + 9 * HourMs)
                                      ELSE req[c].start[1]
                       newBlock == [start |-> actualStart,
                                    end   |-> actualStart + req[c].durationMins * 60000,
                                    title |-> req[c].business]
                       key == RoomKey(req[c].room)
                   IN  /\ data' = [data EXCEPT ![b] =
                             IF @ = <<>> THEN @
                             ELSE <<[@[1] EXCEPT ![key].busyBlocks = Append(@, newBlock)]>>]
                       /\ isFlipped' = [isFlipped EXCEPT ![b] = TRUE]
                       /\ UNCHANGED <<currentDate, loading, bookingError, booking,
                                      selectedDuration, viewing>>
         \* handleRemove, lines 334-347: setViewing(null) after success and failure
         ELSE /\ viewing' = [viewing EXCEPT ![b] = <<>>]
              /\ IF req[c].status # 200 THEN UNCHANGED data
                 ELSE LET key == RoomKey(req[c].room)
                      IN  data' = [data EXCEPT ![b] =
                             IF @ = <<>> THEN @
                             ELSE <<[@[1] EXCEPT ![key].busyBlocks =
                                       SelectSeqBy(@, {j \in 1..Len(@) :
                                                         @[j].start # req[c].start[1]})]>>]
              /\ UNCHANGED <<currentDate, loading, bookingError, booking, selectedDuration,
                             isFlipped>>
  /\ UNCHANGED <<now, server, hist>>

\* --------------------------------------------------------- specifications
\* The routes under any callers: at most MaxRequests requests and failing list
\* calls, taken together.  A request takes the first free connection.  The
\* answer to a browser travels: it is received, and the page's continuation
\* (part_004 lines 221, 297, 334) runs, at any later moment, after other
\* answers perhaps, whatever the server and the page have done meanwhile.  No
\* code of the repository runs when the answer to another caller is received:
\* its reception only frees the connection and changes nothing that the server
\* or a page reads, so it is taken at once, and a connection that is "done"
\* for such a caller is the state in which the server sent the answer.
Delivered == \A c \in Clients : req[c].pc = "done" => req[c].by # ""
FirstFree(c) == /\ req[c].pc = "idle"
               /\ \A o \in Clients : req[o].pc = "idle" => c = "c1" \/ o # "c1"
Budget == /\ Delivered
          /\ spent.requests < MaxRequests
          /\ spent' = [spent EXCEPT !.requests = @ + 1]
          /\ UNCHANGED probe
Send(c) == FirstFree(c) /\ Budget
Step == Delivered /\ UNCHANGED <<spent, probe>>
Fail(ok) == IF ok THEN Step ELSE Budget

Next ==
  \/ Step /\ Tick
  \/ \E c \in Clients : Send(c) /\ RawGet(c)
  \/ \E c \in Clients : Send(c) /\ RawBook(c)
  \/ \E c \in Clients : Send(c) /\ RawBookPlain(c)
  \/ \E c \in Clients : Send(c) /\ RawRemove(c)
  \/ \E c \in Clients, room \in Rooms, ok \in BOOLEAN : Fail(ok) /\ RemoteList(c, room, ok)
  \/ \E c \in Clients, room \in Rooms : Step /\ GetFetch(c, room)
  \/ \E c \in Clients, ok \in BOOLEAN : Step /\ RemoteInsert(c, ok)
  \/ \E c \in Clients : Step /\ BookResume(c)
  \/ \E c \in Clients : Step /\ BookPlainResume(c)
  \/ \E c \in Clients, ok \in BOOLEAN : Step /\ RemoteDelete(c, ok)
  \/ \E c \in Clients : Step /\ RemoveResume(c)
  \/ \E c \in Clients : Receive(c) /\ UNCHANGED <<spent, probe>>

Spec == Init /\ [][Next]_vars

\* The routes under two browsers running the client, while time passes.
\* Every browser shows today and loads it when it mounts; after that the
\* browsers send at most MaxRequests requests in all: a poll, or a booking of
\* half an hour from the dialog opened on the 10:00 slot of the talking room,
\* which stays open.
\* Every request is sent in one step and reaches the server in another.  The
\* credentials are in place and the remote calendar answers every list call.
ClientRooms == {"talking"}
SlotInputs == {2}
BusinessInputs == {"Hunch"}
ClientInit == Init /\ env.availCreds /\ env.writeCreds

ClientNext ==
  \/ Step /\ Tick
  \/ \E b \in Browsers, c \in Clients :
       FirstFree(c) /\ (IF Mounted(b) THEN Budget ELSE Step) /\ ClientFetch(b, c)
  \/ \E b \in Browsers, room \in ClientRooms, slotIndex \in SlotInputs :
       Step /\ openModal(b, room, slotIndex)
  \/ \E b \in Browsers, c \in Clients, selectedBusiness \in BusinessInputs :
       Send(c) /\ handleBookNow(b, c, selectedBusiness)
  \/ \E c \in Clients : Step /\ FetchArrives(c)
  \/ \E c \in Clients : Step /\ BookArrives(c)
  \/ \E c \in Clients, room \in Rooms : Step /\ RemoteList(c, room, TRUE)
  \/ \E c \in Clients, room \in Rooms : Step /\ GetFetch(c, room)
  \/ \E c \in Clients, ok \in BOOLEAN : Step /\ RemoteInsert(c, ok)
  \/ \E c \in Clients : Step /\ BookResume(c)
  \/ \E c \in Clients : Receive(c) /\ UNCHANGED <<spent, probe>>

ClientSpec == ClientInit /\ [][ClientNext]_vars

\* The routes under callers that never stop reading the page of one date,
\* LiveDate, while time never stops.  The process is observed from MaxTicks
\* ticks before the booking window of that date closes.  Up to that instant,
\* LiveHorizon, the clock advances.  From then on no snapshot of the date
\* depends on the clock any more (line 106: its window is over for good), and the
\* origin of time moves instead: the clock reads the same and every stored
\* timestamp is TickMs older, down to the age CACHE_TTL, from which an entry is
\* expired for good.
LiveDate == 1
LiveHorizon == parseWindowTime(LiveDate, WINDOW_END)
LiveNowInit == LiveHorizon - MaxTicks * TickMs
Older(entry) ==
  [entry EXCEPT !.ts = IF @ <= now - CACHE_TTL THEN @
                       ELSE Max(@ - TickMs, now - CACHE_TTL)]
TickForever ==
  IF now < LiveHorizon
  THEN /\ now' = now + TickMs
       /\ UNCHANGED <<server, req, client, obs, hist>>
  ELSE /\ cache' = [d \in DOMAIN cache |-> Older(cache[d])]
       /\ hist' = [hist EXCEPT !.lastStored =
                     [d \in Dates |-> IF @[d] = <<>> THEN <<>> ELSE <<Older(@[d][1])>>]]
       /\ UNCHANGED <<now, env, calendar, nextId, availabilityCache, req, client, obs>>

\* callers read the availability of LiveDate as often as they like and make at
\* most MaxWrites POST requests; the remote calendar answers every list call
Read(c) == Delivered /\ FirstFree(c) /\ UNCHANGED <<spent, probe>>
Write(c) == /\ Delivered /\ FirstFree(c)
            /\ spent.requests < MaxWrites
            /\ spent' = [spent EXCEPT !.requests = @ + 1]
            /\ UNCHANGED probe
Deliver == \E c \in Clients : Receive(c) /\ UNCHANGED <<spent, probe>>

LiveNext ==
  \/ Step /\ TickForever
  \/ \E c \in Clients : Read(c) /\ GetStart(c, <<LiveDate>>, "") /\ UNCHANGED client
  \/ \E c \in Clients : Write(c) /\ RawBook(c)
  \/ \E c \in Clients : Write(c) /\ RawBookPlain(c)
  \/ \E c \in Clients : Write(c) /\ RawRemove(c)
  \/ \E c \in Clients, room \in Rooms : Step /\ RemoteList(c, room, TRUE)
  \/ \E c \in Clients, room \in Rooms : Step /\ GetFetch(c, room)
  \/ \E c \in Clients, ok \in BOOLEAN : Step /\ RemoteInsert(c, ok)
  \/ \E c \in Clients : Step /\ BookResume(c)
  \/ \E c \in Clients : Step /\ BookPlainResume(c)
  \/ \E c \in Clients, ok \in BOOLEAN : Step /\ RemoteDelete(c, ok)
  \/ \E c \in Clients : Step /\ RemoveResume(c)
  \/ Deliver

\* time passes whatever the callers do, and every response is delivered;
\* nothing is assumed of how fast the remote calendar or the handlers are
LiveSpec ==
  /\ InitAt(LiveNowInit) /\ [][LiveNext]_vars
  /\ SF_vars(Step /\ TickForever)
  /\ WF_vars(Deliver)

\* ---------------------------------------------- the functions on their own
\* an instant of date 1, given by its wall time in the zone
At(h, m) == fromZonedTime(1 * DayMs + h * HourMs + m * MinuteMs)
\* all sequences of at most n elements of S
SeqsUpTo(S, n) == UNION {[1..k -> S] : k \in 0..n}

Event(start, end, summary, timed) ==
  [id |-> 0, start |-> start, end |-> end, summary |-> summary, timed |-> timed]
\* what events.list may return for date 1: events before, across, inside and
\* after the window, touching and overlapping ones, one without a summary, one of
\* length zero, one that ends before it starts, and an all-day event
ProbeEvents ==
  { Event(At(8, 0), At(8, 30), "[A]", TRUE),
    Event(At(8, 30), At(9, 0), "[K]", TRUE),
    Event(At(8, 30), At(9, 30), "[B]", TRUE),
    Event(At(9, 0), At(9, 30), "", TRUE),
    Event(At(9, 15), At(9, 45), "[E]", TRUE),
    Event(At(9, 30), At(10, 0), "[D]", TRUE),
    Event(At(10, 0), At(10, 0), "[H]", TRUE),
    Event(At(10, 30), At(10, 15), "[I]", TRUE),
    Event(At(17, 30), At(18, 30), "[F]", TRUE),
    Event(At(18, 0), At(18, 30), "[G]", TRUE),
    Event(At(0, 0), At(24, 0), "[J]", FALSE) }
\* the clock: before opening, at opening, inside the window (in a block, at the
\* instant one block ends and the next starts, late in the day), at closing, and
\* inside the window of the next date
ProbeNows ==
  { At(8, 30), At(9, 0), At(9, 20), At(9, 30), At(17, 45), At(18, 0), At(9, 20) + DayMs }

Block(start, end, title) == [start |-> start, end |-> end, title |-> title]
\* the blocks handed to mergeBlocks and to durationConflicts
ProbeBlocks ==
  { Block(At(9, 0), At(9, 30), "[A]"),
    Block(At(9, 0), At(9, 30), "Booked"),
    Block(At(9, 0), At(10, 30), "[E]"),
    Block(At(9, 15), At(9, 45), "[C]"),
    Block(At(9, 30), At(10, 0), "[B]"),
    Block(At(9, 45), At(10, 30), "[G]"),
    Block(At(9, 45), At(9, 45), "[Z]"),
    Block(At(10, 0), At(10, 30), "[H]"),
    Block(At(17, 30), At(18, 0), "[D]") }
ProbeSlots == 0..3
ProbeDurations == {30, 60, 480}

\* getRoomAvailability(auth, calendarId, dateStr, windowStart, windowEnd) when
\* events.list returns events and the clock shows t
ApplySnapshot(events, dateStr, t) ==
  /\ probe.kind = "none"
  /\ LET windowStart == parseWindowTime(dateStr, WINDOW_START)
         windowEnd   == parseWindowTime(dateStr, WINDOW_END)
     IN  probe' = [kind |-> "snapshot", events |-> events, dateStr |-> dateStr, now |-> t,
                   windowStart |-> windowStart, windowEnd |-> windowEnd,
                   rawBlocks |-> rawBlocksOf(events, windowStart, windowEnd),
                   out |-> RoomSnapshot(events, dateStr, windowStart, windowEnd, t)]
  /\ UNCHANGED <<now, server, req, client, obs, hist, spent>>

\* mergeBlocks(blocks), and mergeBlocks of what it returned
ApplyMerge(blocks) ==
  /\ probe.kind = "none"
  /\ LET out == mergeBlocks(blocks)
     IN  probe' = [kind |-> "merge", blocks |-> blocks, out |-> out,
                   again |-> mergeBlocks(out)]
  /\ UNCHANGED <<now, server, req, client, obs, hist, spent>>

\* what one call of durationConflicts was given and what it returned
ConflictsApplied(dateStr, slotStart, durationMins, blocks) ==
  [kind |-> "conflicts", dateStr |-> dateStr, slotStart |-> slotStart,
   durationMins |-> durationMins, blocks |-> blocks,
   out |-> durationConflicts(dateStr, slotStart, durationMins, blocks),
   \* what handleBookNow would submit for the same click
   submitted |-> SubmittedStart(slotStart, durationMins)]

\* durationConflicts(dateStr, slotStart, durationMins, blocks) for a click on a slot
ApplyConflicts(dateStr, slotIndex, durationMins, blocks) ==
  /\ probe.kind = "none"
  /\ probe' = ConflictsApplied(dateStr, slotIndexToDate(dateStr, slotIndex),
                               durationMins, blocks)
  /\ UNCHANGED <<now, server, req, client, obs, hist, spent>>

\* events of date 1 that do not keep to the half hours, among events that do
GridEvents ==
  { Event(At(8, 30), At(9, 30), "[B]", TRUE),
    Event(At(9, 0), At(9, 10), "[A]", TRUE),
    Event(At(9, 20), At(9, 50), "[C]", TRUE),
    Event(At(9, 30), At(10, 30), "[D]", TRUE),
    Event(At(10, 40), At(10, 50), "[E]", TRUE),
    Event(At(17, 30), At(18, 30), "[F]", TRUE) }

\* the grid of one room: renderSlots on the busy blocks that getRoomAvailability
\* returns for the events of the room
ApplyGrid(events, dateStr) ==
  /\ probe.kind = "none"
  /\ LET windowStart == parseWindowTime(dateStr, WINDOW_START)
         windowEnd   == parseWindowTime(dateStr, WINDOW_END)
         blocks      == RoomSnapshot(events, dateStr, windowStart, windowEnd,
                                     windowStart).busyBlocks
     IN  probe' = [kind |-> "grid", events |-> events, dateStr |-> dateStr,
                   windowStart |-> windowStart, windowEnd |-> windowEnd,
                   blocks |-> blocks, out |-> renderSlots(dateStr, blocks)]
  /\ UNCHANGED <<now, server, req, client, obs, hist, spent>>

PureInit == Init /\ env = [availCreds |-> TRUE, writeCreds |-> TRUE]
\* one application per behaviour
Unapplied == probe.kind = "none"
PureNext ==
  \/ Unapplied /\ \E events \in SeqsUpTo(ProbeEvents, MaxLen), dateStr \in Dates,
                     t \in ProbeNows : ApplySnapshot(events, dateStr, t)
  \/ Unapplied /\ \E blocks \in SeqsUpTo(ProbeBlocks, MaxLen) : ApplyMerge(blocks)
  \/ Unapplied /\ \E dateStr \in Dates, slotIndex \in ProbeSlots,
                     durationMins \in ProbeDurations,
                     blocks \in SeqsUpTo(ProbeBlocks, MaxLen - 1) :
                    ApplyConflicts(dateStr, slotIndex, durationMins, blocks)
  \/ Unapplied /\ \E events \in SeqsUpTo(GridEvents, MaxLen), dateStr \in Dates :
                    ApplyGrid(events, dateStr)
PureSpec == PureInit /\ [][PureNext]_vars

\* --------------------------------------------------------- one browser
\* In the three specifications that follow, one browser mounts and then sends
\* at most MaxRequests requests while time passes; every request is sent in one
\* step and reaches the server in another, and every answer is received when
\* it reaches the browser, in whatever order.  The credentials are in place and
\* the remote calendar answers every list call.
BrowserRooms == {"board"}
BrowserInit == Init /\ env.availCreds /\ env.writeCreds

\* BrowserSpec: the browser stays on today; its user opens and closes the
\* booking dialog on the 10:00 slot of the board room, books half an hour,
\* looks at the reservations shown and removes them, between the polls
BrowserSlots == {2}
BrowserNext ==
  \/ Step /\ Tick
  \/ \E c \in Clients :
       FirstFree(c) /\ (IF Mounted("b1") THEN Budget ELSE Step) /\ ClientFetch("b1", c)
  \/ \E room \in BrowserRooms, slotIndex \in BrowserSlots :
       Step /\ openModal("b1", room, slotIndex)
  \/ Step /\ closeModal("b1")
  \/ \E c \in Clients, selectedBusiness \in BusinessInputs :
       Send(c) /\ handleBookNow("b1", c, selectedBusiness)
  \/ \E room \in BrowserRooms, i \in 1..2 : Step /\ setViewing("b1", room, i)
  \/ Step /\ closeViewing("b1")
  \/ \E c \in Clients : Send(c) /\ handleRemove("b1", c)
  \/ \E c \in Clients : Step /\ FetchArrives(c)
  \/ \E c \in Clients : Step /\ BookArrives(c)
  \/ \E c \in Clients : Step /\ RemoveArrives(c)
  \/ \E c \in Clients, room \in Rooms : Step /\ RemoteList(c, room, TRUE)
  \/ \E c \in Clients, room \in Rooms : Step /\ GetFetch(c, room)
  \/ \E c \in Clients, ok \in BOOLEAN : Step /\ RemoteInsert(c, ok)
  \/ \E c \in Clients : Step /\ BookResume(c)
  \/ \E c \in Clients : Receive(c) /\ UNCHANGED <<spent, probe>>
BrowserSpec == BrowserInit /\ [][BrowserNext]_vars

\* LateSpec: the browser stays on today; its user opens and closes the booking
\* dialog on the last slot of the day, for half an hour or an hour, and books,
\* between the polls
LateSlots == {TOTAL_SLOTS - 1}
LateDurations == {30, 60}
LateNext ==
  \/ Step /\ Tick
  \/ \E c \in Clients :
       FirstFree(c) /\ (IF Mounted("b1") THEN Budget ELSE Step) /\ ClientFetch("b1", c)
  \/ \E room \in BrowserRooms, slotIndex \in LateSlots :
       Step /\ openModal("b1", room, slotIndex)
  \/ Step /\ closeModal("b1")
  \/ \E d \in LateDurations : Step /\ selectDuration("b1", d)
  \/ \E c \in Clients, selectedBusiness \in BusinessInputs :
       Send(c) /\ handleBookNow("b1", c, selectedBusiness)
  \/ \E c \in Clients : Step /\ FetchArrives(c)
  \/ \E c \in Clients : Step /\ BookArrives(c)
  \/ \E c \in Clients, room \in Rooms : Step /\ RemoteList(c, room, TRUE)
  \/ \E c \in Clients, room \in Rooms : Step /\ GetFetch(c, room)
  \/ \E c \in Clients, ok \in BOOLEAN : Step /\ RemoteInsert(c, ok)
  \/ \E c \in Clients : Step /\ BookResume(c)
  \/ \E c \in Clients : Receive(c) /\ UNCHANGED <<spent, probe>>
LateSpec == BrowserInit /\ [][LateNext]_vars

\* DaySpec: the browser moves between the dates (polls, date changes,
\* bookings); its user opens the booking dialog on the 10:00 slot of the board
\* room and leaves it open, for half an hour or 'All day'
DaySlots == {2}
DayDurations == {30, 480}
DayNext ==
  \/ Step /\ Tick
  \/ \E c \in Clients :
       FirstFree(c) /\ (IF Mounted("b1") THEN Budget ELSE Step) /\ ClientFetch("b1", c)
  \/ \E c \in Clients, date \in Dates : Send(c) /\ setCurrentDate("b1", c, date)
  \/ \E room \in BrowserRooms, slotIndex \in DaySlots :
       Step /\ openModal("b1", room, slotIndex)
  \/ \E d \in DayDurations : Step /\ selectDuration("b1", d)
  \/ \E c \in Clients, selectedBusiness \in BusinessInputs :
       Send(c) /\ handleBookNow("b1", c, selectedBusiness)
  \/ \E c \in Clients : Step /\ FetchArrives(c)
  \/ \E c \in Clients : Step /\ BookArrives(c)
  \/ \E c \in Clients, room \in Rooms : Step /\ RemoteList(c, room, TRUE)
  \/ \E c \in Clients, room \in Rooms : Step /\ GetFetch(c, room)
  \/ \E c \in Clients, ok \in BOOLEAN : Step /\ RemoteInsert(c, ok)
  \/ \E c \in Clients : Step /\ BookResume(c)
  \/ \E c \in Clients : Receive(c) /\ UNCHANGED <<spent, probe>>
DaySpec == BrowserInit /\ [][DayNext]_vars

\* ------------------------------------------------------------- properties
AvailReqs == {c \in Clients : req[c].kind = "avail"}
AnsweredOk(c) == req[c].pc = "done" /\ req[c].status = 200

\* C1: after a create for date D has returned success, the next availability
\* read for D recomputes from the remote calendar, even when an entry for D
\* younger than 60 seconds existed before the create: that read is never a
\* cache hit on the snapshot stored before the create.
C1_ReadAfterCreateRecomputes ==
  \A c \in AvailReqs : obs[c].afterCreate => ~obs[c].hit

\* C2: once a read of D has stored a snapshot, a read of D issued less than
\* CACHE_TTL after that store answers with the identical stored response and
\* makes no remote call, and a read of D issued CACHE_TTL or more after the
\* store calls the remote calendar again, once for each room.
C2_TtlHitThenRefetch ==
  \A c \in AvailReqs :
    obs[c].sawAge # <<>> =>
      IF obs[c].sawAge[1] < CACHE_TTL
      THEN /\ AnsweredOk(c) /\ obs[c].hit
           /\ obs[c].calls = 0
           /\ req[c].body = obs[c].sawData
      ELSE /\ ~obs[c].hit
           /\ obs[c].calls = Cardinality(Rooms)

\* a read answered from an entry that was stored some time before
C2_Witness ==
  \E c \in AvailReqs :
    /\ AnsweredOk(c) /\ obs[c].hit
    /\ obs[c].sawAge # <<>> /\ obs[c].sawAge[1] > 0
    /\ req[c].body = obs[c].sawData

\* C4: in every create and every delete request the invalidation happens only
\* in the continuation of that request's remote write, and only when the
\* write has returned success: no step invalidates before the write or
\* without a successful write.
C4_InvalidateOnlyAfterWrite ==
  [][ \A c \in Clients :
        (obs'[c].invalidated # <<>> /\ obs[c].invalidated = <<>>) =>
          /\ req[c].pc \in {"inserted", "deleted"}
          /\ req[c].remoteOk
          /\ req'[c].pc = "done" /\ req'[c].status = 200 ]_vars

\* a create that has invalidated the date of its reservation and answered 200
C4_Witness ==
  \E c \in Clients :
    /\ req[c].kind = "book" /\ AnsweredOk(c)
    /\ obs[c].invalidated = <<{obs[c].date}>>

\* C5: when the remote insert or the remote delete reports failure, the
\* handler answers with an error, has called the remote write once and not
\* again, invalidates nothing, and its steps leave both caches and the remote
\* calendars exactly as they were.
C5_FailureLeavesCaches ==
  [][ \A c \in Clients :
        /\ ( /\ req[c].pc \in {"inserting", "deleting"}
             /\ req'[c].pc \in {"inserted", "deleted"}
             /\ ~req'[c].remoteOk )
           => /\ cache' = cache /\ availabilityCache' = availabilityCache
              /\ calendar' = calendar
        /\ ( /\ req[c].pc \in {"inserted", "deleted"}
             /\ ~req[c].remoteOk
             /\ req'[c] # req[c] )
           => /\ req'[c].pc = "done" /\ req'[c].status = 500
              /\ "error" \in DOMAIN req'[c].body[1]
              /\ obs'[c].writes = 1
              /\ obs'[c].invalidated = <<>>
              /\ cache' = cache /\ availabilityCache' = availabilityCache
              /\ calendar' = calendar ]_vars

\* a delete whose one remote call failed, answered with status 500
C5_Witness ==
  \E c \in Clients :
    /\ req[c].kind = "remove" /\ req[c].pc = "done" /\ req[c].status = 500
    /\ obs[c].writes = 1 /\ obs[c].invalidated = <<>>

\* C6: a snapshot fetched before a mutation and stored after that mutation's
\* invalidation is served to later reads of its date, but to no read issued
\* CACHE_TTL or more after it was stored.
C6_RaceStalenessBounded ==
  \A c \in AvailReqs :
    obs[c].sawRaced =>
      /\ obs[c].hit => obs[c].sawAge[1] < CACHE_TTL /\ req[c].body = obs[c].sawData
      /\ obs[c].sawAge[1] >= CACHE_TTL => ~obs[c].hit

\* a later read answered with the snapshot that lost the race
C6_Witness ==
  \E c \in AvailReqs : AnsweredOk(c) /\ obs[c].hit /\ obs[c].sawRaced

\* C7: two reads of one date that both miss both call the remote calendar for
\* every room and both store; after a store the entry is the whole response
\* of the run that stored last, and every entry is at all times the response
\* of one run: its date is its key and both room snapshots are that run's.
C7_LaterStoreWinsWhole ==
  /\ \A d \in DOMAIN cache :
       /\ cache[d].data.date = d
       /\ hist.lastStored[d] = <<cache[d]>>
  /\ \A c \in AvailReqs :
       (AnsweredOk(c) /\ ~obs[c].hit) =>
         /\ obs[c].calls = Cardinality(Rooms)
         /\ MapHas(cache, obs[c].date)
         /\ <<cache[obs[c].date].data>> = req[c].body

\* the second of two concurrent misses has stored over the first
C7_Witness ==
  \E c \in AvailReqs :
    /\ AnsweredOk(c) /\ ~obs[c].hit /\ obs[c].overtaken
    /\ <<cache[obs[c].date].data>> = req[c].body

\* C9: a successful delete that carried the reservation's start removes
\* exactly the availability cache entry of that start's date and leaves the
\* other dates' entries unchanged; one that carried no start removes every
\* entry.
C9_DeleteInvalidates ==
  [][ \A c \in Clients :
        ( /\ req[c].kind = "remove" /\ req[c].pc = "deleted" /\ req[c].remoteOk
          /\ req'[c].pc = "done" )
        => cache' = IF req[c].start # <<>>
                    THEN MapDelete(cache, DateStrOf(req[c].start[1]))
                    ELSE MapClear(cache) ]_vars

\* C10: a successful create removes the availability cache entry of exactly
\* the date, in the operating timezone, of the reservation's start as the
\* request carried it, and leaves the other dates' entries unchanged.
C10_CreateInvalidatesStartDate ==
  [][ \A c \in Clients :
        ( /\ req[c].kind = "book" /\ req[c].pc = "inserted" /\ req[c].remoteOk
          /\ req'[c].pc = "done" )
        => cache' = MapDelete(cache, DateStrOf(req[c].start[1])) ]_vars

\* C3: when the clients book from availability they have loaded (the
\* availability route is configured and answers), no two reservations accepted
\* by the create operation for one room overlap in time, and none overlaps a
\* reservation already in the room's calendar, however the creates of several
\* clients interleave and however old, within a poll period, the loaded
\* availability is.
Overlap(a, b) == a.start < b.end /\ b.start < a.end
C3_NoOverlappingReservations ==
  env.availCreds =>
    \A room \in Rooms :
      \A i, j \in 1..Len(calendar[room]) :
        i < j => ~Overlap(calendar[room][i], calendar[room][j])

\* C8: cache staleness heals by itself: once the mutations have stopped,
\* from some point on every read that is answered carries, for both rooms, the
\* busy blocks of the remote calendar as the last mutation left it; and a
\* cache hit never extends the lifetime of an entry: it leaves the cache,
\* timestamps included, as it was.
CurrentBlocks(room, dateStr) ==
  LET windowStart == parseWindowTime(dateStr, WINDOW_START)
      windowEnd   == parseWindowTime(dateStr, WINDOW_END)
  IN  mergeBlocks(rawBlocksOf(EventsList(calendar[room], windowStart, windowEnd),
                              windowStart, windowEnd))
UpToDate(d) ==
  \A room \in Rooms : d[RoomKey(room)].busyBlocks = CurrentBlocks(room, d.date)
C8_StalenessSelfHeals ==
  /\ <>[](\A c \in AvailReqs : AnsweredOk(c) => UpToDate(req[c].body[1]))
  /\ [][ \A c \in Clients :
           (req[c].pc = "idle" /\ req'[c].kind = "avail" /\ obs'[c].hit)
             => cache' = cache ]_vars

\* a read that found an expired entry of before a mutation recomputed, and
\* answered with the calendar as it is now
C8_Witness ==
  \E c \in AvailReqs :
    /\ AnsweredOk(c) /\ ~obs[c].hit
    /\ obs[c].sawAge # <<>> /\ obs[c].sawAge[1] >= CACHE_TTL
    /\ ~UpToDate(obs[c].sawData[1])
    /\ UpToDate(req[c].body[1])

\* C11: a create request whose body lacks the room, the start, the duration or
\* the business, and a delete request whose body lacks the room or the event
\* identity, is answered 400 with an error in the very step that receives it:
\* no remote write is made or pending, and both caches, the calendars and the
\* identity counter are what they were
C11_MissingFieldsRejected ==
  [][\A c \in Clients :
       (/\ req[c].pc = "idle" /\ req'[c].kind \in {"book", "remove"}
        /\ obs'[c].missing # {})
         => /\ req'[c].pc = "done" /\ req'[c].status = 400
            /\ req'[c].body # <<>> /\ DOMAIN req'[c].body[1] = {"error"}
            /\ obs'[c].writes = 0 /\ obs'[c].invalidated = <<>>
            /\ UNCHANGED <<cache, availabilityCache, calendar, nextId>>]_vars
\* a delete request that names an event and no room was rejected while the
\* cache held an entry and a create request was waiting for the remote calendar
C11_Witness ==
  /\ req["c2"].kind = "remove" /\ obs["c2"].missing = {"room"}
  /\ req["c2"].status = 400
  /\ req["c1"].kind = "book" /\ req["c1"].pc = "inserting"
  /\ cache # <<>>

\* the snapshot a read holds for a room: in the handler's locals while the other
\* room is awaited, in the response once the handler has answered
SnapshotHeld(r, room) ==
  IF r.pc = "done" THEN r.body[1][RoomKey(room)] ELSE r.snaps[room][1]

\* C12: in a read that misses the cache, a room whose list call fails gets the
\* snapshot {no busy blocks, not free, no next availability, an error}; a room
\* whose list call succeeds gets the snapshot computed from the events that call
\* returned, whatever the other room's call did; a snapshot already held is taken
\* unchanged into the response, and the response is a normal one (status 200)
C12_FailedRoomIsolated ==
  [][\A c \in Clients, room \in Rooms :
       (/\ req[c].kind = "avail" /\ req[c].pc = "fetching" /\ req[c].snaps[room] = <<>>
        /\ (req'[c].pc = "done" \/ req'[c].snaps[room] # <<>>))
         => LET dateStr     == req[c].date
                windowStart == parseWindowTime(dateStr, WINDOW_START)
                windowEnd   == parseWindowTime(dateStr, WINDOW_END)
                new         == SnapshotHeld(req'[c], room)
            IN  /\ room \in obs'[c].failed
                     => /\ new.busyBlocks = <<>> /\ new.freeNow = FALSE
                        /\ new.nextAvailable = <<>> /\ new.error # ""
                /\ room \notin obs'[c].failed
                     => new = RoomSnapshot(req[c].lists[room][1].events,
                                           dateStr, windowStart, windowEnd, now)
                /\ req'[c].pc = "done"
                     => /\ req'[c].status = 200
                        /\ DOMAIN req'[c].body[1] = {"talkingRoom", "boardRoom", "date"}
                        /\ \A o \in Rooms \ {room} :
                              SnapshotHeld(req'[c], o) = req[c].snaps[o][1]]_vars
\* a read was answered 200 with the error snapshot for the talking room, whose
\* list call failed, and the board room's reservation in the other snapshot
C12_Witness ==
  \E c \in Clients :
    /\ req[c].kind = "avail" /\ req[c].pc = "done" /\ req[c].status = 200
    /\ obs[c].failed = {"talking"}
    /\ req[c].body[1].talkingRoom.error # ""
    /\ req[c].body[1].boardRoom.error = ""
    /\ req[c].body[1].boardRoom.busyBlocks # <<>>

\* C13: when the service credentials of the availability route are unset or do
\* not decode, every read (each one misses, the cache being empty) is answered
\* with an error and nothing else: status 500, a body that holds only an error,
\* no list call for either room, and the cache never gets an entry
C13_NoCredentialsFailsWhole ==
  ~env.availCreds
    => /\ cache = <<>>
       /\ \A c \in Clients :
            req[c].kind = "avail"
              => /\ req[c].pc = "done" /\ req[c].status = 500
                 /\ req[c].body # <<>> /\ DOMAIN req[c].body[1] = {"error"}
                 /\ ~obs[c].hit /\ obs[c].calls = 0 /\ obs[c].failed = {}
\* without read credentials a read was refused while a create request, whose
\* credentials are separate, was waiting for the remote calendar
C13_Witness ==
  /\ ~env.availCreds
  /\ req["c2"].kind = "avail" /\ req["c2"].status = 500
  /\ req["c1"].kind = "book" /\ req["c1"].pc = "inserting"

\* ------------------------------------------- properties of the functions
\* the instants at which coverage is compared: every quarter of an hour from
\* 08:00 to 19:00 of date 1 (all interval ends of the inputs are among them)
Grid == {At(8, 0) + k * 15 * MinuteMs : k \in 0..44}
\* t lies in one of the half-open intervals [start, end)
Covers(blocks, t) == \E i \in 1..Len(blocks) : blocks[i].start <= t /\ t < blocks[i].end

\* C14: the busy blocks of every snapshot are sorted ascending by start and
\* pairwise disjoint, each has start < end, and each lies inside
\* [windowStart, windowEnd], whatever list of events the calendar returned
C14_BusyBlocksWellFormed ==
  probe.kind = "snapshot"
    => LET b == probe.out.busyBlocks
       IN  /\ \A i \in 1..Len(b) :
                /\ b[i].start < b[i].end
                /\ probe.windowStart <= b[i].start /\ b[i].end <= probe.windowEnd
           /\ \A i, j \in 1..Len(b) :
                i < j => b[i].start < b[j].start /\ b[i].end <= b[j].start
\* three events, one starting before the window and one ending after it, gave
\* two busy blocks that reach from the window's start to its end
C14_Witness ==
  /\ probe.kind = "snapshot" /\ Len(probe.events) = 3
  /\ \E i \in 1..3 : probe.events[i].timed /\ probe.events[i].start < probe.windowStart
                     /\ probe.events[i].end > probe.windowStart
  /\ \E i \in 1..3 : probe.events[i].timed /\ probe.events[i].end > probe.windowEnd
                     /\ probe.events[i].start < probe.windowEnd
  /\ Len(probe.out.busyBlocks) = 2
  /\ probe.out.busyBlocks[1].start = probe.windowStart
  /\ probe.out.busyBlocks[2].end = probe.windowEnd

\* C15: for every list of blocks, an instant is covered by the merged blocks
\* exactly when it is covered by an input block, and each merged block ends
\* strictly before the next one starts (blocks that touch are merged)
C15_MergeLosesNoTime ==
  probe.kind = "merge"
    => /\ \A t \in Grid : Covers(probe.out, t) <=> Covers(probe.blocks, t)
       /\ \A i \in 1..Len(probe.out) - 1 : probe.out[i].end < probe.out[i + 1].start
\* three blocks given out of order, two of which touch without overlapping, were
\* merged into two
C15_Witness ==
  /\ probe.kind = "merge" /\ Len(probe.blocks) = 3 /\ Len(probe.out) = 2
  /\ probe.blocks[1].start > probe.blocks[3].start
  /\ probe.blocks[2].start = probe.blocks[3].end
  /\ \A i, j \in 1..3 : i # j => \/ probe.blocks[i].end <= probe.blocks[j].start
                                 \/ probe.blocks[j].end <= probe.blocks[i].start

\* C16: merging what mergeBlocks returned returns it again: the same number of
\* blocks in the same order with the same start, end and title
C16_MergeIdempotent ==
  probe.kind = "merge"
    => /\ Len(probe.again) = Len(probe.out)
       /\ \A i \in 1..Len(probe.out) :
            /\ probe.again[i].start = probe.out[i].start
            /\ probe.again[i].end = probe.out[i].end
            /\ probe.again[i].title = probe.out[i].title
\* three overlapping blocks were merged into one that carries the title of a
\* block that was not the first of the list and ends where another one ends
C16_Witness ==
  /\ probe.kind = "merge" /\ Len(probe.blocks) = 3 /\ Len(probe.out) = 1
  /\ probe.out[1].title # probe.blocks[1].title
  /\ probe.out[1].end > probe.blocks[3].end
  /\ \E i \in 1..3 : /\ probe.blocks[i].title = probe.out[1].title
                     /\ probe.blocks[i].end < probe.out[1].end

\* C17: the raw blocks of a snapshot are the timed events, in the order given,
\* each clipped to [max(start, windowStart), min(end, windowEnd)] and kept
\* exactly when the clipped start is before the clipped end; an event that ends
\* at or before windowStart, starts at or after windowEnd or does not end after
\* it starts adds no instant to the busy blocks
C17_NormalizationClips ==
  probe.kind = "snapshot"
    => LET ev      == probe.events
           cs(i)   == Max(ev[i].start, probe.windowStart)
           ce(i)   == Min(ev[i].end, probe.windowEnd)
           kept    == {i \in 1..Len(ev) : ev[i].timed /\ cs(i) < ce(i)}
           rank(i) == Cardinality({j \in kept : j <= i})
       IN  /\ Len(probe.rawBlocks) = Cardinality(kept)
           /\ \A i \in kept : /\ probe.rawBlocks[rank(i)].start = cs(i)
                              /\ probe.rawBlocks[rank(i)].end = ce(i)
           /\ \A t \in Grid :
                Covers(probe.out.busyBlocks, t)
                  <=> \E i \in 1..Len(ev) :
                        /\ ev[i].timed
                        /\ probe.windowStart <= t /\ t < probe.windowEnd
                        /\ ev[i].start <= t /\ t < ev[i].end
\* of an event that ends at the window's start, an event that starts before the
\* window and ends inside it, and an event that ends before it starts, only the
\* second was kept, clipped to start at the window's start
C17_Witness ==
  /\ probe.kind = "snapshot" /\ Len(probe.events) = 3
  /\ probe.events[1].end = probe.windowStart
  /\ probe.events[2].start < probe.windowStart /\ probe.events[2].end > probe.windowStart
  /\ probe.events[3].end < probe.events[3].start
  /\ Len(probe.rawBlocks) = 1
  /\ probe.rawBlocks[1].start = probe.windowStart
  /\ probe.rawBlocks[1].end = probe.events[2].end

\* C18: when the clock is inside [windowStart, windowEnd) of the requested date,
\* freeNow is true exactly when no busy block has start <= now < end; if one
\* has, nextAvailable is the end of that block, wherever it is in the list; if
\* none has, nextAvailable is absent
C18_FreeNowInsideWindow ==
  (/\ probe.kind = "snapshot"
   /\ probe.windowStart <= probe.now /\ probe.now < probe.windowEnd)
    => LET b       == probe.out.busyBlocks
           current == {i \in 1..Len(b) : b[i].start <= probe.now /\ probe.now < b[i].end}
       IN  /\ probe.out.freeNow <=> current = {}
           /\ \A i \in current : probe.out.nextAvailable = <<b[i].end>>
           /\ current = {} => probe.out.nextAvailable = <<>>
\* the clock was inside the second of two busy blocks, and nextAvailable was the
\* end of that block
C18_Witness ==
  /\ probe.kind = "snapshot"
  /\ Len(probe.out.busyBlocks) = 2
  /\ probe.out.busyBlocks[2].start <= probe.now
  /\ probe.now < probe.out.busyBlocks[2].end
  /\ ~probe.out.freeNow
  /\ probe.out.nextAvailable = <<probe.out.busyBlocks[2].end>>

\* C19: when the clock is outside [windowStart, windowEnd) of the requested
\* date, the snapshot says freeNow = false and gives no nextAvailable, whatever
\* its busy blocks are
C19_OutsideWindowNotFree ==
  (/\ probe.kind = "snapshot"
   /\ ~(probe.windowStart <= probe.now /\ probe.now < probe.windowEnd))
    => /\ probe.out.freeNow = FALSE
       /\ probe.out.nextAvailable = <<>>
\* the clock showed exactly the window's end, where a busy block ends
C19_Witness ==
  /\ probe.kind = "snapshot"
  /\ probe.now = probe.windowEnd
  /\ probe.out.busyBlocks # <<>>
  /\ probe.out.busyBlocks[Len(probe.out.busyBlocks)].end = probe.windowEnd
  /\ ~probe.out.freeNow

\* C20: durationConflicts returns a block exactly when some block has
\* start < proposedEnd and end > effectiveStart, where effectiveStart is the
\* window's start for a duration of 480 minutes and the clicked slot's start
\* otherwise, and proposedEnd is effectiveStart plus the duration; the block it
\* returns is such a block; blocks that only touch the proposal do not count
C20_ConflictIffOverlap ==
  probe.kind = "conflicts"
    => LET effectiveStart == IF probe.durationMins = 480
                             THEN parseWindowTime(probe.dateStr, WINDOW_START)
                             ELSE probe.slotStart
           proposedEnd    == effectiveStart + probe.durationMins * MinuteMs
           Hit(b)         == b.start < proposedEnd /\ b.end > effectiveStart
           b              == probe.blocks
       IN  /\ probe.out # <<>> <=> \E i \in 1..Len(b) : Hit(b[i])
           /\ probe.out # <<>> => Hit(probe.out[1]) /\ \E i \in 1..Len(b) : b[i] = probe.out[1]
           /\ (\A i \in 1..Len(b) : b[i].start >= proposedEnd \/ b[i].end <= effectiveStart)
                => probe.out = <<>>
\* a half-hour proposal between a block that ends where it starts and a block
\* that starts where it ends was not a conflict
C20_Witness ==
  /\ probe.kind = "conflicts" /\ probe.durationMins = 30 /\ Len(probe.blocks) = 2
  /\ probe.blocks[1].end = probe.slotStart
  /\ probe.blocks[2].start = probe.slotStart + 30 * MinuteMs
  /\ probe.out = <<>>

\* the length of the booking window in minutes, and the window's start
WindowMins == WINDOW_END - WINDOW_START

\* C21: the conflict check and the submitted reservation start at the window's
\* start when the duration is the length of the booking window, and at the
\* start of the clicked slot for every other duration
C21_OverrideAtWindowLength ==
  probe.kind = "conflicts"
    => LET effectiveStart == IF probe.durationMins = WindowMins
                             THEN parseWindowTime(probe.dateStr, WINDOW_START)
                             ELSE probe.slotStart
           proposedEnd    == effectiveStart + probe.durationMins * MinuteMs
       IN  /\ probe.submitted = effectiveStart
           /\ probe.out # <<>>
                <=> \E i \in 1..Len(probe.blocks) :
                      /\ probe.blocks[i].start < proposedEnd
                      /\ probe.blocks[i].end > effectiveStart

\* the durations the dialog offers (lines 620 and 647); while it is open it
\* calls durationConflicts for them on the loaded blocks of its room
Durations == {30, 60, 180, 240, 480}
DialogCheck(b, d) ==
  durationConflicts(currentDate[b], booking[b][1].slotStart, d,
                    BlocksOf(data[b], booking[b][1].room))

\* C22: whenever the conflict check made by the booking dialog returns a block,
\* no block of the list it was given that conflicts with the proposal starts
\* earlier than the returned one
C22_EarliestConflictReturned ==
  (Alive("b1") /\ booking["b1"] # <<>>)
    => \A d \in Durations :
         LET blocks         == BlocksOf(data["b1"], booking["b1"][1].room)
             effectiveStart == IF d = 480
                               THEN parseWindowTime(currentDate["b1"], WINDOW_START)
                               ELSE booking["b1"][1].slotStart
             proposedEnd    == effectiveStart + d * MinuteMs
         IN  DialogCheck("b1", d) # <<>>
               => \A i \in 1..Len(blocks) :
                    (blocks[i].start < proposedEnd /\ blocks[i].end > effectiveStart)
                      => DialogCheck("b1", d)[1].start <= blocks[i].start

\* C23: every merged block carries the title of the input block that is first
\* in the stable order by start among those it was merged from: the block that
\* starts where the merged block starts and, of several such, the one earliest
\* in the input; a block taken in later never gives its title
C23_FirstLabelWins ==
  probe.kind = "merge"
    => \A k \in 1..Len(probe.out) :
         LET same  == {i \in 1..Len(probe.blocks) : probe.blocks[i].start = probe.out[k].start}
             first == CHOOSE i \in same : \A j \in same : i <= j
         IN  same # {} /\ probe.out[k].title = probe.blocks[first].title
\* three blocks became one: the first two start together, the third starts
\* later and extends the end, and the title is that of the first
C23_Witness ==
  /\ probe.kind = "merge" /\ Len(probe.blocks) = 3 /\ Len(probe.out) = 1
  /\ probe.blocks[1].start = probe.blocks[2].start
  /\ probe.blocks[1].title # probe.blocks[2].title
  /\ probe.blocks[3].start > probe.blocks[1].start
  /\ probe.out[1].end = probe.blocks[3].end
  /\ probe.out[1].end > probe.blocks[1].end /\ probe.out[1].end > probe.blocks[2].end
  /\ probe.out[1].title = probe.blocks[1].title

\* slot i of the window of the probed date: [SlotStart(i), SlotStart(i + 1))
SlotStart(i) == probe.windowStart + i * 30 * MinuteMs

\* C24: in the grid of a room, every busy block (all of them lie inside the
\* window) is labelled in exactly one slot, and that slot is the one that
\* contains the block's start
C24_LabelledOnceAtItsStart ==
  probe.kind = "grid"
    => \A k \in 1..Len(probe.blocks) :
         LET at == {i \in 0..TOTAL_SLOTS - 1 : probe.out[i + 1].label = k}
         IN  /\ Cardinality(at) = 1
             /\ \A i \in at :
                  LET effectiveStart == Max(probe.blocks[k].start, probe.windowStart)
                  IN  SlotStart(i) <= effectiveStart /\ effectiveStart < SlotStart(i + 1)

\* C26: the grid has N = window length / 30 minutes slots; slot i is shown busy
\* exactly when some block has start < SlotStart(i + 1) and end > SlotStart(i),
\* and every slot that is not busy, the last one included, opens the dialog
C26_SlotBusyIffOverlap ==
  probe.kind = "grid"
    => /\ Len(probe.out) * 30 = WindowMins
       /\ \A i \in 0..Len(probe.out) - 1 :
            LET overlapped == \E k \in 1..Len(probe.blocks) :
                                /\ probe.blocks[k].start < SlotStart(i + 1)
                                /\ probe.blocks[k].end > SlotStart(i)
            IN  /\ probe.out[i + 1].busyBlock # <<>> <=> overlapped
                /\ probe.out[i + 1].clickable <=> ~overlapped
\* a block ends where the second slot starts: the first slot is busy, the second
\* opens the dialog; and the last slot of the day, after a free one, is busy
\* only up to the window's end while slots in between open the dialog
C26_Witness ==
  /\ probe.kind = "grid" /\ Len(probe.blocks) = 2
  /\ probe.blocks[1].end = SlotStart(1)
  /\ ~probe.out[1].clickable /\ probe.out[2].clickable
  /\ probe.out[TOTAL_SLOTS - 1].clickable
  /\ probe.out[TOTAL_SLOTS].busyBlock # <<>>
  /\ probe.blocks[2].end = probe.windowEnd

\* the grid the browser shows for a room: renderSlots on the loaded blocks
Displayed(b, room) == renderSlots(currentDate[b], BlocksOf(data[b], room))

\* C25: in every grid the browser shows, the height of a label, in slots, is
\* ceil((block.end - max(block.start, window.start)) / 30 minutes), and the label
\* ends inside the grid: slot + height <= TOTAL_SLOTS
C25_SpanInsideGrid ==
  \A room \in Rooms :
    (/\ GridShown("b1", room)
     \* the data shown was loaded for the date shown
     /\ data["b1"] # <<>> /\ data["b1"][1].date = currentDate["b1"])
      => LET blocks      == BlocksOf(data["b1"], room)
             windowStart == parseWindowTime(currentDate["b1"], WINDOW_START)
             grid        == Displayed("b1", room)
         IN  \A i \in 0..TOTAL_SLOTS - 1 :
               grid[i + 1].label # 0
                 => LET block          == blocks[grid[i + 1].label]
                        effectiveStart == Max(block.start, windowStart)
                    IN  /\ grid[i + 1].height
                             = CeilDiv(block.end - effectiveStart, 30 * MinuteMs)
                        /\ i + grid[i + 1].height <= TOTAL_SLOTS

\* C27: a response the read assembled from the two snapshots is in the cache
\* when it is sent, error snapshots included; a read that comes less than
\* CACHE_TTL after the last store is answered with what was stored, error
\* snapshots included, without a list call; the configuration-error response
\* leaves no entry
C27_EveryAssembledResponseStored ==
  \A c \in Clients :
    (req[c].kind = "avail" /\ req[c].pc = "done")
      => /\ (req[c].status = 200 /\ ~obs[c].hit)
              => /\ MapHas(cache, obs[c].date)
                 /\ cache[obs[c].date].data = req[c].body[1]
         /\ (obs[c].sawAge # <<>> /\ obs[c].sawAge[1] < CACHE_TTL)
              => /\ obs[c].hit /\ obs[c].calls = 0
                 /\ req[c].status = 200 /\ req[c].body = obs[c].sawData
         /\ req[c].status = 500
              => /\ ~MapHas(cache, obs[c].date)
                 /\ \A d \in DOMAIN cache : cache[d].data # req[c].body[1]
\* a read was answered from the cache, without a list call, with the error
\* snapshot an earlier read had stored for the talking room
C27_Witness ==
  \E c \in Clients :
    /\ req[c].kind = "avail" /\ req[c].pc = "done" /\ req[c].status = 200
    /\ obs[c].hit /\ obs[c].calls = 0
    /\ req[c].body[1].talkingRoom.error # ""
    /\ cache[obs[c].date].data = req[c].body[1]

\* the room snapshots held by the cache, by the reads in progress and by the
\* responses on their way
SnapshotsOf(d) == {d.talkingRoom, d.boardRoom}
AllSnapshots ==
  UNION ({SnapshotsOf(cache[k].data) : k \in DOMAIN cache}
         \cup {SnapshotsOf(req[c].body[1]) :
                 c \in {x \in Clients : req[x].kind = "avail" /\ req[x].pc = "done"
                                        /\ req[x].status = 200}}
         \cup {{req[c].snaps[r][1] : r \in {x \in Rooms : req[c].snaps[x] # <<>>}} :
                 c \in Clients})

\* C28: in every room snapshot returned or cached, nextAvailable is present only
\* if freeNow is false, and an error comes with no busy blocks, freeNow false
\* and no nextAvailable
C28_SnapshotConsistent ==
  \A s \in AllSnapshots :
    /\ s.nextAvailable # <<>> => s.freeNow = FALSE
    /\ s.error # "" => /\ s.busyBlocks = <<>> /\ s.freeNow = FALSE
                       /\ s.nextAvailable = <<>>
\* the cache holds a response with an error snapshot for one room and, for the
\* other, a running reservation with its end as nextAvailable
C28_Witness ==
  \E k \in DOMAIN cache :
    /\ cache[k].data.boardRoom.error # ""
    /\ cache[k].data.talkingRoom.error = ""
    /\ cache[k].data.talkingRoom.busyBlocks # <<>>
    /\ ~cache[k].data.talkingRoom.freeNow
    /\ cache[k].data.talkingRoom.nextAvailable
         = <<cache[k].data.talkingRoom.busyBlocks[1].end>>

\* the step is a click on 'Book now' in browser b1: the only step of DaySpec
\* that counts as a request and sends nothing but a create request of b1
BookNowPressed ==
  /\ spent' # spent
  /\ \A c \in Clients :
       (req[c].pc = "idle" /\ req'[c].pc # "idle")
         => (req'[c].kind = "book" /\ req'[c].by = "b1")
\* the connections on which the step sends a create request
SentBy(b) ==
  {c \in Clients : req[c].pc = "idle" /\ req'[c].kind = "book" /\ req'[c].by = b}
\* C29: a create request leaves the browser only in a click on 'Book now', and
\* only when the conflict check of that click (durationConflicts on the date
\* shown, the dialog's slot, the selected duration and the blocks loaded for
\* the dialog's room) reports nothing: then one request leaves, for the
\* dialog's room, its start and the selected duration; when the check reports
\* a block, no request leaves, the loaded data, the calendar and the cache stay
\* as they were, and the error names the start of that block, one of the
\* loaded blocks
C29_CreateOnlyWithoutConflict ==
  [][(\A c \in Clients :
        (req[c].pc = "idle" /\ req'[c].kind = "book" /\ req'[c].by = "b1") => BookNowPressed)
     /\ (BookNowPressed =>
           /\ booking["b1"] # <<>>
           /\ LET room     == booking["b1"][1].room
                  duration == selectedDuration["b1"]
                  start    == SubmittedStart(booking["b1"][1].slotStart, duration)
                  blocks   == BlocksOf(data["b1"], room)
                  conflict == DialogCheck("b1", duration)
              IN  IF conflict = <<>>
                  THEN /\ \E c \in SentBy("b1") :
                            /\ req'[c].pc = "sent"
                            /\ req'[c].room = room
                            /\ req'[c].start = <<start>>
                            /\ req'[c].durationMins = duration
                            /\ \A o \in Clients \ {c} : req'[o] = req[o]
                       /\ bookingError'["b1"] = <<>>
                  ELSE /\ req' = req
                       /\ data' = data /\ loading' = loading
                       /\ calendar' = calendar /\ cache' = cache
                       /\ bookingError'["b1"]
                            = <<[kind |-> "conflict", at |-> conflict[1].start]>>
                       /\ \E i \in 1..Len(blocks) : blocks[i] = conflict[1])]_vars
\* the browser clicked 'Book now' in a dialog that shows its form, opened on a
\* slot that was free, after the loaded blocks or the date shown had come to
\* hold a block that the selected duration runs into: the error names that
\* block and nothing is in flight
C29_Witness ==
  /\ booking["b1"] # <<>> /\ ~isFlipped["b1"]
  /\ DialogCheck("b1", selectedDuration["b1"]) # <<>>
  /\ bookingError["b1"] = <<[kind |-> "conflict",
                            at |-> DialogCheck("b1", selectedDuration["b1"])[1].start]>>
  /\ \A c \in Clients : req[c].pc = "idle"

\* C30: whenever the browser is not loading, the availability it shows is the
\* one of the selected date
C30_ShownDataIsOfCurrentDate ==
  (Alive("b1") /\ ~loading["b1"])
    => /\ data["b1"] # <<>>
       /\ data["b1"][1].date = currentDate["b1"]

=============================================================================
